---- MODULE Spec2Model ----
(***************************************************************************)
(* Handle ownership and channel message passing of magenta-rs.             *)
(*                                                                         *)
(* The Rust wrappers (src/src/lib.rs, src/src/channel.rs) are modelled     *)
(* operation by operation.  The kernel behind the sys:: calls is not part  *)
(* of the sources; it is modelled from the syscall contract: a per-process *)
(* handle table, two channel endpoints with one message queue each, and    *)
(* handles that travel inside messages.                                    *)
(***************************************************************************)
EXTENDS Integers, Sequences, FiniteSets, TLC

(***************************************************************************)
(* Bounds of the model.                                                    *)
(***************************************************************************)
\* raw handle values the kernel issues: 1..MaxHandle
MaxHandle == 4
\* longest payload a client writes
MaxBytes == 2
\* messages the kernel holds pending, both endpoints together, in the transfer runs
MaxQueue == 2
\* the same in the ownership runs
MaxPending == 1
\* vmo objects in use at a time in the transfer runs
MaxVmos == 2
\* longest Vec<Handle> a client builds for a write
MaxVec == 2
\* read_raw calls one Channel::read may make before the model stops counting
MaxProbes == 3
\* core::u32::MAX scaled down to the model's sizes
U32_MAX == 3
\* the statuses a kernel call is taken to return: -MaxStatus..MaxStatus
MaxStatus == 30
\* cookies a client registers entries under: 1..MaxCookie
MaxCookie == 2
\* largest capacity the client gives its Vec<WaitSetResult>
MaxResults == 2

(***************************************************************************)
(* Program constants.                                                      *)
(***************************************************************************)
NO_ERROR == 0
ERR_NOT_SUPPORTED == -2
ERR_NOT_FOUND == -3
ERR_NO_MEMORY == -4
ERR_INVALID_ARGS == -10
ERR_BAD_HANDLE == -12
ERR_OUT_OF_RANGE == -13
ERR_BUFFER_TOO_SMALL == -14
ERR_ALREADY_EXISTS == -15
ERR_ALREADY_BOUND == -16
ERR_BAD_STATE == -20
ERR_TIMED_OUT == -23
ERR_REMOTE_CLOSED == -25
ERR_SHOULD_WAIT == -27
ERR_ACCESS_DENIED == -30
\* the sentinel of a taken slot (lib.rs of the channel.rs revision)
INVALID_HANDLE == 0

Sides == {0, 1}
Handles == 1..MaxHandle
\* one payload per length; every byte of a payload is its length
Payload(n) == [i \in 1..n |-> n]
Payloads == {Payload(n) : n \in 0..MaxBytes}
\* a byte slice one longer than a u32 can count
Oversize == Payload(U32_MAX + 1)
NoObj == "none"
EpObjs == {"ep0", "ep1"}
VmoObjs == {"v1", "v2"}
EpObj(s) == IF s = 0 THEN "ep0" ELSE "ep1"
SideOf(o) == IF o = "ep0" THEN 0 ELSE 1
Max(a, b) == IF a >= b THEN a ELSE b
Min(a, b) == IF a <= b THEN a ELSE b
Range(f) == {f[i] : i \in DOMAIN f}

VARIABLES
    hobj,       \* kernel: handle table of the process, raw handle -> object
    queue,      \* kernel: queue[s] = messages pending for the endpoint of side s
    badClose,   \* kernel: an mx_handle_close call named a value that was no live handle
    flavor,     \* "none" | "channel" | "pipe" | "reply": the pair that was created
    ep,         \* ep[s] = raw handle wrapped by the endpoint object of side s, 0 = none
    loose,      \* loose[h] = number of Handle/Vmo wrappers the client holds on h
    vec,        \* the client's Vec<Handle> for the next write
    buf,        \* the client's MessageBuf
    rd,         \* the read call in progress
    last,       \* what the last operation returned
    tracked,    \* the operations whose return value the run records in last
    wlog,       \* wlog[s] = messages written for side s as the writer passed them
    takenIx,    \* slot indexes take_handle has emptied since the last read
    ws,         \* the client's WaitSet, the kernel's wait set behind it, the signals
                \* of the watched handles and the client's Vec<WaitSetResult>
    buf2        \* the MessageBuf of a second reader of the endpoint buf is read into

vars == <<hobj, queue, badClose, flavor, ep, loose, vec, buf,
          rd, last, tracked, wlog, takenIx, ws, buf2>>

(***************************************************************************)
(* The kernel (syscall contract).                                          *)
(***************************************************************************)
Live(ho, h) == h \in Handles /\ ho[h] # NoObj

InFlight(q, o) ==
    \E s \in Sides : \E i \in 1..Len(q[s]) :
        \E j \in 1..Len(q[s][i].objs) : q[s][i].objs[j] = o

\* an endpoint exists while a handle refers to it or it travels in a message
EpAlive(ho, q, s) == (\E h \in Handles : ho[h] = EpObj(s)) \/ InFlight(q, EpObj(s))

\* the queue of a destroyed endpoint is destroyed with it
Sweep1(ho, q) == [s \in Sides |-> IF EpAlive(ho, q, s) THEN q[s] ELSE <<>>]
Sweep(ho, q) == Sweep1(ho, Sweep1(ho, q))

\* The kernel issues the lowest value that names no live handle: a value is free
\* again once its handle is closed or has left the process in a message.
FreeValues(ho) == {h \in Handles : ho[h] = NoObj}
RECURSIVE LowestFree(_, _)
LowestFree(ho, k) ==
    IF k = 0 THEN <<>>
    ELSE LET h == CHOOSE x \in FreeValues(ho) : \A y \in FreeValues(ho) : x <= y
         IN <<h>> \o LowestFree([ho EXCEPT ![h] = "taken"], k - 1)

\* K = [hobj, queue, bad]
mx_handle_close(K, h) ==
    LET ho == IF Live(K.hobj, h) THEN [K.hobj EXCEPT ![h] = NoObj] ELSE K.hobj
    IN  [hobj |-> ho,
         queue |-> Sweep(ho, K.queue),
         bad |-> K.bad \/ ~Live(K.hobj, h)]

mx_channel_read(ho, q, h, num_bytes, num_handles) ==
    LET fail(st) == [status |-> st, nb |-> num_bytes, nh |-> num_handles,
                     bytes |-> <<>>, hs |-> <<>>, hobj |-> ho, queue |-> q]
    IN
    IF ~(Live(ho, h) /\ ho[h] \in EpObjs) THEN fail(ERR_BAD_HANDLE)
    ELSE LET s == SideOf(ho[h]) IN
    IF q[s] = <<>>
    THEN IF EpAlive(ho, q, 1 - s) THEN fail(ERR_SHOULD_WAIT) ELSE fail(ERR_REMOTE_CLOSED)
    ELSE LET m == Head(q[s])
             k == Len(m.objs)
         IN
         IF Len(m.bytes) > num_bytes \/ k > num_handles
         THEN [fail(ERR_BUFFER_TOO_SMALL) EXCEPT !.nb = Len(m.bytes), !.nh = k]
         ELSE LET hs == LowestFree(ho, k) IN
              [status |-> NO_ERROR, nb |-> Len(m.bytes), nh |-> k,
               bytes |-> m.bytes,
               hs |-> hs,
               hobj |-> [x \in Handles |->
                            IF \E i \in 1..k : hs[i] = x
                            THEN m.objs[CHOOSE i \in 1..k : hs[i] = x] ELSE ho[x]],
               queue |-> [q EXCEPT ![s] = Tail(@)]]

\* fl: the flavor of the pair; oom: the kernel is out of memory for this call
mx_channel_write(ho, q, fl, h, bytes, hs, oom) ==
    LET fail(st) == [status |-> st, hobj |-> ho, queue |-> q] IN
    IF ~(Live(ho, h) /\ ho[h] \in EpObjs) THEN fail(ERR_BAD_HANDLE)
    ELSE LET s == SideOf(ho[h])
             n == Len(hs)
             selfAt == {i \in 1..n : hs[i] = h}
             replyEnd == fl = "reply" /\ s = 1
         IN
         IF \E i \in 1..n : ~Live(ho, hs[i]) THEN fail(ERR_BAD_HANDLE)
         ELSE IF \E i, j \in 1..n : i # j /\ hs[i] = hs[j] THEN fail(ERR_INVALID_ARGS)
         ELSE IF selfAt # {} /\ ~(replyEnd /\ selfAt = {n}) THEN fail(ERR_NOT_SUPPORTED)
         ELSE IF replyEnd /\ selfAt = {} THEN fail(ERR_BAD_STATE)
         ELSE IF ~EpAlive(ho, q, 1 - s) THEN fail(ERR_REMOTE_CLOSED)
         ELSE IF oom THEN fail(ERR_NO_MEMORY)
         ELSE LET q2 == [q EXCEPT ![1 - s] =
                            Append(@, [bytes |-> bytes, objs |-> [i \in 1..n |-> ho[hs[i]]]])]
                  ho2 == [x \in Handles |-> IF x \in Range(hs) THEN NoObj ELSE ho[x]]
              IN [status |-> NO_ERROR, hobj |-> ho2, queue |-> Sweep(ho2, q2)]

mx_channel_create(ho, ok) ==
    IF ~ok THEN [status |-> ERR_NO_MEMORY, h0 |-> 0, h1 |-> 0, hobj |-> ho]
    ELSE LET hs == LowestFree(ho, 2) IN
         [status |-> NO_ERROR, h0 |-> hs[1], h1 |-> hs[2],
          hobj |-> [ho EXCEPT ![hs[1]] = "ep0", ![hs[2]] = "ep1"]]

\* a vmo object no handle refers to is one the kernel can hand out as new
FreeVmos(ho, q) == {o \in VmoObjs : ~InFlight(q, o) /\ \A h \in Handles : ho[h] # o}

\* the status is the new handle value on success
mx_vmo_create(ho, q, ok) ==
    IF ~ok THEN [status |-> ERR_NO_MEMORY, hobj |-> ho]
    ELSE LET o == IF "v1" \in FreeVmos(ho, q) THEN "v1" ELSE "v2"
             h == LowestFree(ho, 1)[1]
         IN [status |-> h, hobj |-> [ho EXCEPT ![h] = o]]

\* the result is the new handle value on success; deny: the rights are no subset
mx_handle_duplicate(ho, h, deny) ==
    IF ~Live(ho, h) THEN [result |-> ERR_BAD_HANDLE, hobj |-> ho]
    ELSE IF deny \/ ho[h] \in EpObjs THEN [result |-> ERR_ACCESS_DENIED, hobj |-> ho]
    ELSE LET n == LowestFree(ho, 1)[1] IN
         [result |-> n, hobj |-> [ho EXCEPT ![n] = ho[h]]]

(***************************************************************************)
(* The wrappers: helpers.                                                  *)
(***************************************************************************)
\* into_result taking NO_ERROR alone for success
into_result_strict(status) == status = NO_ERROR

\* TRUE: Ok(f()); FALSE: Err(Status(status))
into_result(status) == status >= 0

\* the success test of MessagePipe::write_raw: if status != sys::NO_ERROR { return Err }
write_raw_ok(status) == ~(status # NO_ERROR)

\* the success test of WaitSet::wait: if status != sys::NO_ERROR { ... return Err }
wait_ok(status) == ~(status # NO_ERROR)

\* the success test of Vmo::read and Vmo::write: if ssize < 0 { Err } else { Ok }
vmo_io_ok(ssize) == ~(ssize < 0)

\* the success test of HandleRef::duplicate: if result < 0 { Err } else { Ok }
duplicate_ok(result) == ~(result < 0)

size_to_u32_sat(size) == Min(size, U32_MAX)

\* Vec::reserve: the capacity after reserving room for `additional` more elements
reserve(cap, len, additional) ==
    IF cap - len >= additional THEN cap ELSE Max(2 * cap, len + additional)

\* ensure_capacity comparing the size with the capacity and not with the length
ensure_capacity_by_cap(cap, len, size) ==
    IF size > cap THEN reserve(cap, len, size - cap) ELSE cap

\* the capacity of a Vec of capacity cap and length len after ensure_capacity(vec, size)
ensure_capacity(cap, len, size) ==
    IF size > len THEN reserve(cap, len, size - len) ELSE cap

ensure_capacity_bytes(b, n_bytes) ==
    [b EXCEPT !.bcap = ensure_capacity(b.bcap, Len(b.bytes), n_bytes)]

ensure_capacity_handles(b, n_handles) ==
    [b EXCEPT !.hcap = ensure_capacity(b.hcap, Len(b.handles), n_handles)]

\* MessageBuf::new()
NewMessageBuf ==
    [alive |-> TRUE, bytes |-> <<>>, bcap |-> 0, handles |-> <<>>, hcap |-> 0, unused_ix |-> 0]

DeadMessageBuf == [NewMessageBuf EXCEPT !.alive = FALSE]

handle_drop(K, h) == mx_handle_close(K, h)

\* HandleRef::duplicate wrapping the handle it was called on and not the new one
duplicate_same(ho, handle, deny) ==
    LET r == mx_handle_duplicate(ho, handle, deny) IN
    IF r.result < 0
    THEN [ok |-> FALSE, st |-> r.result, h |-> 0, hobj |-> r.hobj]
    ELSE [ok |-> TRUE, st |-> 0, h |-> handle, hobj |-> r.hobj]

\* HandleRef::duplicate: h is the raw handle the new Handle wraps
duplicate(ho, handle, deny) ==
    LET r == mx_handle_duplicate(ho, handle, deny) IN
    IF ~duplicate_ok(r.result)
    THEN [ok |-> FALSE, st |-> r.result, h |-> 0, hobj |-> r.hobj]
    ELSE [ok |-> TRUE, st |-> 0, h |-> r.result, hobj |-> r.hobj]

\* Channel::create wrapping handle0 in both Channels
create_same(ho, ok) ==
    LET r == mx_channel_create(ho, ok) IN
    IF into_result(r.status)
    THEN [ok |-> TRUE, st |-> r.status, e0 |-> r.h0, e1 |-> r.h0, hobj |-> r.hobj]
    ELSE [ok |-> FALSE, st |-> r.status, e0 |-> 0, e1 |-> 0, hobj |-> r.hobj]

\* Channel::create: e0 and e1 are the raw handles the two Channels wrap; on Err no
\* Channel is made
create(ho, ok) ==
    LET r == mx_channel_create(ho, ok) IN
    IF into_result(r.status)
    THEN [ok |-> TRUE, st |-> r.status, e0 |-> r.h0, e1 |-> r.h1, hobj |-> r.hobj]
    ELSE [ok |-> FALSE, st |-> r.status, e0 |-> 0, e1 |-> 0, hobj |-> r.hobj]

\* into_handle dropping self where the code forgets it
into_handle_drop(K, raw_handle) == [K |-> handle_drop(K, raw_handle), h |-> raw_handle]

\* HandleBase::into_handle: self is forgotten, not dropped; the Handle wraps its raw handle
into_handle(K, raw_handle) == [K |-> K, h |-> raw_handle]

\* drop_handles closing every slot, the taken ones too
RECURSIVE drop_handles_all(_, _)
drop_handles_all(K, hs) ==
    IF hs = <<>> THEN K ELSE drop_handles_all(handle_drop(K, Head(hs)), Tail(hs))

\* channel::MessageBuf::drop_handles
RECURSIVE drop_handles(_, _)
drop_handles(K, hs) ==
    IF hs = <<>> THEN K
    ELSE drop_handles(IF Head(hs) # 0 THEN handle_drop(K, Head(hs)) ELSE K, Tail(hs))

\* dropping a Vec<Handle>: Drop for Handle on every element
RECURSIVE drop_vec(_, _)
drop_vec(K, hs) ==
    IF hs = <<>> THEN K ELSE drop_vec(handle_drop(K, Head(hs)), Tail(hs))

\* the slots of a channel MessageBuf that hold a handle
Held(b) == Cardinality({i \in 1..Len(b.handles) : b.handles[i] # INVALID_HANDLE})

\* reset_handles closing the handles and leaving them in the Vec
reset_handles_keep(K, b) ==
    [K |-> drop_handles(K, b.handles), buf |-> b]

\* channel::MessageBuf::reset_handles
reset_handles(K, b) ==
    [K |-> drop_handles(K, b.handles), buf |-> [b EXCEPT !.handles = <<>>]]

\* take_handle that leaves the slot as it was
take_handle_keep(b, index) ==
    IF index < Len(b.handles)
    THEN IF b.handles[index + 1] = INVALID_HANDLE
         THEN [some |-> FALSE, h |-> 0, buf |-> b]
         ELSE [some |-> TRUE, h |-> b.handles[index + 1], buf |-> b]
    ELSE [some |-> FALSE, h |-> 0, buf |-> b]

\* take_handle removing the slot from the Vec (Vec::remove)
take_handle_remove(b, index) ==
    IF index < Len(b.handles)
    THEN IF b.handles[index + 1] = INVALID_HANDLE
         THEN [some |-> FALSE, h |-> 0, buf |-> b]
         ELSE [some |-> TRUE, h |-> b.handles[index + 1],
               buf |-> [b EXCEPT !.handles = SubSeq(@, 1, index)
                                               \o SubSeq(@, index + 2, Len(@))]]
    ELSE [some |-> FALSE, h |-> 0, buf |-> b]

\* channel::MessageBuf::take_handle; index counts from 0
take_handle(b, index) ==
    IF index < Len(b.handles)
    THEN IF b.handles[index + 1] = INVALID_HANDLE
         THEN [some |-> FALSE, h |-> 0, buf |-> b]
         ELSE [some |-> TRUE, h |-> b.handles[index + 1],
               buf |-> [b EXCEPT !.handles[index + 1] = INVALID_HANDLE]]
    ELSE [some |-> FALSE, h |-> 0, buf |-> b]

\* the Vec's contents after the kernel wrote `written` at its start and set_len(n):
\* the first n elements of its memory (0 stands for memory never written)
SetLen(old, written, n) ==
    [i \in 1..n |-> IF i <= Len(written) THEN written[i]
                    ELSE IF i <= Len(old) THEN old[i] ELSE 0]

\* read_raw reporting, on the too-small outcome, the sizes it asked with
read_raw_asked(K, raw, b) ==
    LET r0 == reset_handles(K, b)
        b1 == r0.buf
        num_bytes == size_to_u32_sat(b1.bcap)
        num_handles == size_to_u32_sat(b1.hcap)
        r == mx_channel_read(r0.K.hobj, r0.K.queue, raw, num_bytes, num_handles)
        K2 == [hobj |-> r.hobj, queue |-> r.queue, bad |-> r0.K.bad]
    IN  IF r.status = ERR_BUFFER_TOO_SMALL
        THEN [ret |-> "TooSmall", st |-> r.status, nb |-> num_bytes, nh |-> num_handles,
              buf |-> b1, K |-> K2, popped |-> FALSE]
        ELSE IF into_result(r.status)
        THEN [ret |-> "Ok", st |-> r.status, nb |-> r.nb, nh |-> r.nh,
              buf |-> [b1 EXCEPT !.bytes = SetLen(b1.bytes, r.bytes, r.nb),
                                 !.handles = SetLen(b1.handles, r.hs, r.nh)],
              K |-> K2, popped |-> r.status = NO_ERROR]
        ELSE [ret |-> "Err", st |-> r.status, nb |-> r.nb, nh |-> r.nh,
              buf |-> b1, K |-> K2, popped |-> FALSE]

\* read_raw setting the length of each Vec from the count of the other
read_raw_swapped(K, raw, b) ==
    LET r0 == reset_handles(K, b)
        b1 == r0.buf
        num_bytes == size_to_u32_sat(b1.bcap)
        num_handles == size_to_u32_sat(b1.hcap)
        r == mx_channel_read(r0.K.hobj, r0.K.queue, raw, num_bytes, num_handles)
        K2 == [hobj |-> r.hobj, queue |-> r.queue, bad |-> r0.K.bad]
    IN  IF r.status = ERR_BUFFER_TOO_SMALL
        THEN [ret |-> "TooSmall", st |-> r.status, nb |-> r.nb, nh |-> r.nh,
              buf |-> b1, K |-> K2, popped |-> FALSE]
        ELSE IF into_result(r.status)
        THEN [ret |-> "Ok", st |-> r.status, nb |-> r.nb, nh |-> r.nh,
              buf |-> [b1 EXCEPT !.bytes = SetLen(b1.bytes, r.bytes, r.nh),
                                 !.handles = SetLen(b1.handles, r.hs, r.nb)],
              K |-> K2, popped |-> r.status = NO_ERROR]
        ELSE [ret |-> "Err", st |-> r.status, nb |-> r.nb, nh |-> r.nh,
              buf |-> b1, K |-> K2, popped |-> FALSE]

\* read_raw setting the lengths to the capacities it passed in, not to the counts
\* the kernel wrote back
read_raw_full(K, raw, b) ==
    LET r0 == reset_handles(K, b)
        b1 == r0.buf
        num_bytes == size_to_u32_sat(b1.bcap)
        num_handles == size_to_u32_sat(b1.hcap)
        r == mx_channel_read(r0.K.hobj, r0.K.queue, raw, num_bytes, num_handles)
        K2 == [hobj |-> r.hobj, queue |-> r.queue, bad |-> r0.K.bad]
    IN  IF r.status = ERR_BUFFER_TOO_SMALL
        THEN [ret |-> "TooSmall", st |-> r.status, nb |-> r.nb, nh |-> r.nh,
              buf |-> b1, K |-> K2, popped |-> FALSE]
        ELSE IF into_result(r.status)
        THEN [ret |-> "Ok", st |-> r.status, nb |-> r.nb, nh |-> r.nh,
              buf |-> [b1 EXCEPT !.bytes = SetLen(b1.bytes, r.bytes, num_bytes),
                                 !.handles = SetLen(b1.handles, r.hs, num_handles)],
              K |-> K2, popped |-> r.status = NO_ERROR]
        ELSE [ret |-> "Err", st |-> r.status, nb |-> r.nb, nh |-> r.nh,
              buf |-> b1, K |-> K2, popped |-> FALSE]

\* Channel::read_raw on the endpoint wrapping raw
read_raw(K, raw, b) ==
    LET r0 == reset_handles(K, b)
        b1 == r0.buf
        num_bytes == size_to_u32_sat(b1.bcap)
        num_handles == size_to_u32_sat(b1.hcap)
        r == mx_channel_read(r0.K.hobj, r0.K.queue, raw, num_bytes, num_handles)
        K2 == [hobj |-> r.hobj, queue |-> r.queue, bad |-> r0.K.bad]
    IN  IF r.status = ERR_BUFFER_TOO_SMALL
        THEN [ret |-> "TooSmall", st |-> r.status, nb |-> r.nb, nh |-> r.nh,
              buf |-> b1, K |-> K2, popped |-> FALSE]
        ELSE IF into_result(r.status)
        THEN [ret |-> "Ok", st |-> r.status, nb |-> r.nb, nh |-> r.nh,
              buf |-> [b1 EXCEPT !.bytes = SetLen(b1.bytes, r.bytes, r.nb),
                                 !.handles = SetLen(b1.handles, r.hs, r.nh)],
              K |-> K2, popped |-> r.status = NO_ERROR]
        ELSE [ret |-> "Err", st |-> r.status, nb |-> r.nb, nh |-> r.nh,
              buf |-> b1, K |-> K2, popped |-> FALSE]

\* Channel::read growing the buffer and returning Ok without reading again
read_turn_once(K, raw, b) ==
    LET r == read_raw(K, raw, b) IN
    IF r.ret = "TooSmall"
    THEN [r EXCEPT !.ret = "Ok",
                   !.buf = ensure_capacity_handles(ensure_capacity_bytes(r.buf, r.nb), r.nh)]
    ELSE r

\* Channel::read going round its loop again after any failure of read_raw
read_turn_again(K, raw, b) ==
    LET r == read_raw(K, raw, b) IN
    IF r.ret # "Ok"
    THEN [r EXCEPT !.ret = "TooSmall",
                   !.buf = ensure_capacity_handles(ensure_capacity_bytes(r.buf, r.nb), r.nh)]
    ELSE r

\* one turn of the loop of Channel::read
read_turn(K, raw, b) ==
    LET r == read_raw(K, raw, b) IN
    IF r.ret = "TooSmall"
    THEN [r EXCEPT !.buf = ensure_capacity_handles(ensure_capacity_bytes(r.buf, r.nb), r.nh)]
    ELSE r

\* Channel::write forgetting the handles whatever the status
write_forget(ho, q, fl, raw, bytes, v, oom) ==
    IF Len(bytes) > U32_MAX \/ Len(v) > U32_MAX
    THEN [ok |-> FALSE, st |-> ERR_OUT_OF_RANGE, vec |-> v, hobj |-> ho, queue |-> q,
          called |-> FALSE]
    ELSE LET n_bytes == Len(bytes)
             n_handles == Len(v)
             r == mx_channel_write(ho, q, fl, raw, SubSeq(bytes, 1, n_bytes),
                                   SubSeq(v, 1, n_handles), oom)
         IN [ok |-> into_result(r.status), st |-> r.status,
             vec |-> <<>>,
             hobj |-> r.hobj, queue |-> r.queue, called |-> TRUE]

\* Channel::write passing the handle count for the byte count
write_short(ho, q, fl, raw, bytes, v, oom) ==
    IF Len(bytes) > U32_MAX \/ Len(v) > U32_MAX
    THEN [ok |-> FALSE, st |-> ERR_OUT_OF_RANGE, vec |-> v, hobj |-> ho, queue |-> q,
          called |-> FALSE]
    ELSE LET n_bytes == Min(Len(bytes), Len(v))
             n_handles == Len(v)
             r == mx_channel_write(ho, q, fl, raw, SubSeq(bytes, 1, n_bytes),
                                   SubSeq(v, 1, n_handles), oom)
         IN [ok |-> into_result(r.status), st |-> r.status,
             vec |-> IF into_result(r.status) THEN <<>> ELSE v,
             hobj |-> r.hobj, queue |-> r.queue, called |-> TRUE]

\* Channel::write with the lengths cast to u32 (as u32) in place of value_into
write_cast(ho, q, fl, raw, bytes, v, oom) ==
    LET n_bytes == Len(bytes) % (U32_MAX + 1)
        n_handles == Len(v) % (U32_MAX + 1)
        r == mx_channel_write(ho, q, fl, raw, SubSeq(bytes, 1, n_bytes),
                              SubSeq(v, 1, n_handles), oom)
    IN [ok |-> into_result(r.status), st |-> r.status,
        vec |-> IF into_result(r.status) THEN <<>> ELSE v,
        hobj |-> r.hobj, queue |-> r.queue, called |-> TRUE]

\* Channel::write: the caller's handles v, what it returns and leaves in v
write(ho, q, fl, raw, bytes, v, oom) ==
    IF Len(bytes) > U32_MAX \/ Len(v) > U32_MAX
    THEN [ok |-> FALSE, st |-> ERR_OUT_OF_RANGE, vec |-> v, hobj |-> ho, queue |-> q,
          called |-> FALSE]
    ELSE LET n_bytes == Len(bytes)
             n_handles == Len(v)
             r == mx_channel_write(ho, q, fl, raw, SubSeq(bytes, 1, n_bytes),
                                   SubSeq(v, 1, n_handles), oom)
         IN [ok |-> into_result(r.status), st |-> r.status,
             vec |-> IF into_result(r.status) THEN <<>> ELSE v,
             hobj |-> r.hobj, queue |-> r.queue, called |-> TRUE]

(***************************************************************************)
(* The wrappers of lib.rs: MessagePipe and its MessageBuf.                 *)
(***************************************************************************)
mx_msgpipe_create(ho, ok) == mx_channel_create(ho, ok)

mx_msgpipe_read(ho, q, h, num_bytes, num_handles) ==
    mx_channel_read(ho, q, h, num_bytes, num_handles)

mx_msgpipe_write(ho, q, fl, h, bytes, hs, oom) ==
    mx_channel_write(ho, q, fl, h, bytes, hs, oom)

\* MessagePipe::create
pipe_create(ho, ok) ==
    LET r == mx_msgpipe_create(ho, ok) IN
    IF into_result(r.status)
    THEN [ok |-> TRUE, st |-> r.status, e0 |-> r.h0, e1 |-> r.h1, hobj |-> r.hobj]
    ELSE [ok |-> FALSE, st |-> r.status, e0 |-> 0, e1 |-> 0, hobj |-> r.hobj]

\* lib.rs MessageBuf::n_handles
pipe_n_handles(b) == Len(b.handles) - b.unused_ix

\* lib.rs drop_handles closing the slots the iterator has passed as well
pipe_drop_handles_all(K, b) == drop_vec(K, b.handles)

\* lib.rs MessageBuf::drop_handles: every slot from unused_ix on
pipe_drop_handles(K, b) ==
    drop_vec(K, SubSeq(b.handles, b.unused_ix + 1, Len(b.handles)))

\* lib.rs MessageBuf::reset_handles
pipe_reset_handles(K, b) ==
    [K |-> pipe_drop_handles(K, b),
     buf |-> [b EXCEPT !.unused_ix = 0, !.handles = <<>>]]

\* HandleIter::next yielding the slot without moving unused_ix on
HandleIter_next_stay(b) ==
    IF b.unused_ix = Len(b.handles)
    THEN [some |-> FALSE, h |-> 0, buf |-> b]
    ELSE [some |-> TRUE, h |-> b.handles[b.unused_ix + 1], buf |-> b]

\* HandleIter::next
HandleIter_next(b) ==
    IF b.unused_ix = Len(b.handles)
    THEN [some |-> FALSE, h |-> 0, buf |-> b]
    ELSE [some |-> TRUE, h |-> b.handles[b.unused_ix + 1],
          buf |-> [b EXCEPT !.unused_ix = @ + 1]]

\* MessagePipe::read: calls counts the mx_msgpipe_read calls it made
pipe_read(K, raw, b) ==
    LET r0 == pipe_reset_handles(K, b)
        b1 == r0.buf
        r1 == mx_msgpipe_read(r0.K.hobj, r0.K.queue, raw,
                              size_to_u32_sat(b1.bcap), size_to_u32_sat(b1.hcap))
        small == r1.status = ERR_BUFFER_TOO_SMALL
        b2 == IF small
              THEN [b1 EXCEPT !.bcap = ensure_capacity(b1.bcap, Len(b1.bytes), r1.nb),
                              !.hcap = ensure_capacity(b1.hcap, Len(b1.handles), r1.nh)]
              ELSE b1
        r == IF small
             THEN mx_msgpipe_read(r1.hobj, r1.queue, raw,
                                  size_to_u32_sat(b2.bcap), size_to_u32_sat(b2.hcap))
             ELSE r1
        K2 == [hobj |-> r.hobj, queue |-> r.queue, bad |-> r0.K.bad]
    IN  [ret |-> IF into_result(r.status) THEN "Ok" ELSE "Err",
         st |-> r.status, nb |-> r.nb, nh |-> r.nh,
         buf |-> IF into_result(r.status)
                 THEN [b2 EXCEPT !.bytes = SetLen(b2.bytes, r.bytes, r.nb),
                                 !.handles = SetLen(b2.handles, r.hs, r.nh)]
                 ELSE b2,
         K |-> K2, popped |-> r.status = NO_ERROR,
         calls |-> IF small THEN 2 ELSE 1]

\* the first call of MessagePipe::read with no growth after the too-small status
pipe_read_first_nogrow(K, raw, b) ==
    LET r0 == pipe_reset_handles(K, b)
        b1 == r0.buf
        r1 == mx_msgpipe_read(r0.K.hobj, r0.K.queue, raw,
                              size_to_u32_sat(b1.bcap), size_to_u32_sat(b1.hcap))
        K2 == [hobj |-> r1.hobj, queue |-> r1.queue, bad |-> r0.K.bad]
    IN  IF r1.status = ERR_BUFFER_TOO_SMALL
        THEN [small |-> TRUE, ret |-> "TooSmall", st |-> r1.status, nb |-> r1.nb,
              nh |-> r1.nh, buf |-> b1, K |-> K2, popped |-> FALSE]
        ELSE [small |-> FALSE, ret |-> IF into_result(r1.status) THEN "Ok" ELSE "Err",
              st |-> r1.status, nb |-> r1.nb, nh |-> r1.nh,
              buf |-> IF into_result(r1.status)
                      THEN [b1 EXCEPT !.bytes = SetLen(b1.bytes, r1.bytes, r1.nb),
                                      !.handles = SetLen(b1.handles, r1.hs, r1.nh)]
                      ELSE b1,
              K |-> K2, popped |-> r1.status = NO_ERROR]

\* MessagePipe::read up to its second mx_msgpipe_read: reset_handles, the first
\* call and, on the too-small status, the growth of both Vecs; on any other status
\* into_result follows at once
pipe_read_first(K, raw, b) ==
    LET r0 == pipe_reset_handles(K, b)
        b1 == r0.buf
        r1 == mx_msgpipe_read(r0.K.hobj, r0.K.queue, raw,
                              size_to_u32_sat(b1.bcap), size_to_u32_sat(b1.hcap))
        K2 == [hobj |-> r1.hobj, queue |-> r1.queue, bad |-> r0.K.bad]
    IN  IF r1.status = ERR_BUFFER_TOO_SMALL
        THEN [small |-> TRUE, ret |-> "TooSmall", st |-> r1.status, nb |-> r1.nb,
              nh |-> r1.nh,
              buf |-> [b1 EXCEPT !.bcap = ensure_capacity(b1.bcap, Len(b1.bytes), r1.nb),
                                 !.hcap = ensure_capacity(b1.hcap, Len(b1.handles), r1.nh)],
              K |-> K2, popped |-> FALSE]
        ELSE [small |-> FALSE, ret |-> IF into_result(r1.status) THEN "Ok" ELSE "Err",
              st |-> r1.status, nb |-> r1.nb, nh |-> r1.nh,
              buf |-> IF into_result(r1.status)
                      THEN [b1 EXCEPT !.bytes = SetLen(b1.bytes, r1.bytes, r1.nb),
                                      !.handles = SetLen(b1.handles, r1.hs, r1.nh)]
                      ELSE b1,
              K |-> K2, popped |-> r1.status = NO_ERROR]

\* MessagePipe::read from its second mx_msgpipe_read on: the call with the grown
\* capacities and into_result
pipe_read_second(K, raw, b) ==
    LET r == mx_msgpipe_read(K.hobj, K.queue, raw,
                             size_to_u32_sat(b.bcap), size_to_u32_sat(b.hcap))
    IN  [ret |-> IF into_result(r.status) THEN "Ok" ELSE "Err",
         st |-> r.status, nb |-> r.nb, nh |-> r.nh,
         buf |-> IF into_result(r.status)
                 THEN [b EXCEPT !.bytes = SetLen(b.bytes, r.bytes, r.nb),
                                !.handles = SetLen(b.handles, r.hs, r.nh)]
                 ELSE b,
         K |-> [hobj |-> r.hobj, queue |-> r.queue, bad |-> K.bad],
         popped |-> r.status = NO_ERROR]

\* MessagePipe::write_raw
write_raw(ho, q, fl, raw, bytes, v, oom) ==
    IF Len(bytes) > U32_MAX \/ Len(v) > U32_MAX
    THEN [ok |-> FALSE, st |-> ERR_OUT_OF_RANGE, vec |-> v, hobj |-> ho, queue |-> q,
          called |-> FALSE]
    ELSE LET r == mx_msgpipe_write(ho, q, fl, raw, bytes, v, oom) IN
         IF ~write_raw_ok(r.status)
         THEN [ok |-> FALSE, st |-> r.status, vec |-> v, hobj |-> r.hobj,
               queue |-> r.queue, called |-> TRUE]
         ELSE [ok |-> TRUE, st |-> r.status, vec |-> <<>>, hobj |-> r.hobj,
               queue |-> r.queue, called |-> TRUE]

\* MessagePipe::write
pipe_write(ho, q, fl, raw, bytes, v, oom) == write_raw(ho, q, fl, raw, bytes, v, oom)

\* MessagePipe::write_reply keeping the endpoint object after a successful send
write_reply_keep(ho, q, fl, raw, bytes, v, oom) ==
    LET pushed == Append(v, raw)
        r == write_raw(ho, q, fl, raw, bytes, pushed, oom)
    IN  IF r.ok
        THEN [ok |-> TRUE, st |-> r.st, vec |-> r.vec, self |-> raw,
              hobj |-> r.hobj, queue |-> r.queue]
        ELSE [ok |-> FALSE, st |-> r.st, vec |-> SubSeq(r.vec, 1, Len(r.vec) - 1),
              self |-> r.vec[Len(r.vec)], hobj |-> r.hobj, queue |-> r.queue]

\* MessagePipe::write_reply leaving the pushed self-handle in the Vec on failure
write_reply_nopop(ho, q, fl, raw, bytes, v, oom) ==
    LET pushed == Append(v, raw)
        r == write_raw(ho, q, fl, raw, bytes, pushed, oom)
    IN  IF r.ok
        THEN [ok |-> TRUE, st |-> r.st, vec |-> r.vec, self |-> 0,
              hobj |-> r.hobj, queue |-> r.queue]
        ELSE [ok |-> FALSE, st |-> r.st, vec |-> r.vec,
              self |-> r.vec[Len(r.vec)], hobj |-> r.hobj, queue |-> r.queue]

\* MessagePipe::write_reply: self is the raw handle the returned MessagePipe wraps, 0
\* when the call consumed it
write_reply(ho, q, fl, raw, bytes, v, oom) ==
    LET pushed == Append(v, raw)
        r == write_raw(ho, q, fl, raw, bytes, pushed, oom)
    IN  IF r.ok
        THEN [ok |-> TRUE, st |-> r.st, vec |-> r.vec, self |-> 0,
              hobj |-> r.hobj, queue |-> r.queue]
        ELSE [ok |-> FALSE, st |-> r.st, vec |-> SubSeq(r.vec, 1, Len(r.vec) - 1),
              self |-> r.vec[Len(r.vec)], hobj |-> r.hobj, queue |-> r.queue]

(***************************************************************************)
(* Wait sets: the kernel's side (syscall contract) and the wrappers of     *)
(* lib.rs. A signal mask is the set of its bits.                           *)
(***************************************************************************)
Cookies == 1..MaxCookie
SigBits == {0, 1}
WsObj == "waitset"
NoEntry == [h |-> 0, signals |-> {}]

\* no WaitSet yet, nothing registered, no signal active, results = Vec::new()
NewWaitSet ==
    [h |-> 0,
     reg |-> [c \in Cookies |-> NoEntry],
     obs |-> [h \in Handles |-> {}],
     results |-> [cap |-> 0, recs |-> <<>>]]

\* the status is the new handle value on success
mx_waitset_create(ho, ok) ==
    IF ~ok THEN [status |-> ERR_NO_MEMORY, hobj |-> ho]
    ELSE LET h == LowestFree(ho, 1)[1] IN
         [status |-> h, hobj |-> [ho EXCEPT ![h] = WsObj]]

mx_waitset_add(ho, reg, ws_handle, handle, signals, cookie) ==
    IF ~(Live(ho, ws_handle) /\ ho[ws_handle] = WsObj /\ Live(ho, handle))
    THEN [status |-> ERR_BAD_HANDLE, reg |-> reg]
    ELSE IF reg[cookie] # NoEntry THEN [status |-> ERR_ALREADY_EXISTS, reg |-> reg]
    ELSE [status |-> NO_ERROR,
          reg |-> [reg EXCEPT ![cookie] = [h |-> handle, signals |-> signals]]]

mx_waitset_remove(ho, reg, ws_handle, cookie) ==
    IF ~(Live(ho, ws_handle) /\ ho[ws_handle] = WsObj)
    THEN [status |-> ERR_BAD_HANDLE, reg |-> reg]
    ELSE IF reg[cookie] = NoEntry THEN [status |-> ERR_NOT_FOUND, reg |-> reg]
    ELSE [status |-> NO_ERROR, reg |-> [reg EXCEPT ![cookie] = NoEntry]]

\* the cookies of the entries with a watched signal active
ReadyCookies(reg, obs) ==
    {c \in Cookies : reg[c] # NoEntry /\ reg[c].signals \cap obs[reg[c].h] # {}}

\* mx_waitset_result_t of the entry of cookie c
ResultOf(reg, obs, c) == [cookie |-> c, status |-> NO_ERROR, observed |-> obs[reg[c].h]]

\* the cookies of S in ascending order
RECURSIVE Ascending(_)
Ascending(S) ==
    IF S = {} THEN <<>>
    ELSE LET c == CHOOSE x \in S : \A y \in S : x <= y IN <<c>> \o Ascending(S \ {c})

\* the results the kernel may write with room for num_results: the ready entries,
\* or any num_results of them
WaitChoices(reg, obs, num_results) ==
    {S \in SUBSET ReadyCookies(reg, obs) :
        Cardinality(S) = Min(num_results, Cardinality(ReadyCookies(reg, obs)))}

\* with a finite timeout; chosen: the entries the kernel reports
mx_waitset_wait(ho, reg, obs, ws_handle, num_results, chosen) ==
    IF ~(Live(ho, ws_handle) /\ ho[ws_handle] = WsObj)
    THEN [status |-> ERR_BAD_HANDLE, num_results |-> num_results, written |-> <<>>,
          max_results |-> 0]
    ELSE IF ReadyCookies(reg, obs) = {}
    THEN [status |-> ERR_TIMED_OUT, num_results |-> num_results, written |-> <<>>,
          max_results |-> 0]
    ELSE [status |-> NO_ERROR, num_results |-> Cardinality(chosen),
          written |-> [i \in 1..Cardinality(chosen) |->
                          ResultOf(reg, obs, Ascending(chosen)[i])],
          max_results |-> Cardinality(ReadyCookies(reg, obs))]

\* WaitSet::create: h is the raw handle the WaitSet wraps
waitset_create(ho, ok) ==
    LET r == mx_waitset_create(ho, ok) IN
    [ok |-> into_result(r.status), st |-> IF into_result(r.status) THEN 0 ELSE r.status,
     h |-> IF into_result(r.status) THEN r.status ELSE 0, hobj |-> r.hobj]

\* WaitSet::add returning Ok whatever the status
waitset_add_ok(ho, reg, raw, handle, signals, cookie) ==
    LET r == mx_waitset_add(ho, reg, raw, handle, signals, cookie) IN
    [ok |-> TRUE, st |-> r.status, reg |-> r.reg]

\* WaitSet::add
waitset_add(ho, reg, raw, handle, signals, cookie) ==
    LET r == mx_waitset_add(ho, reg, raw, handle, signals, cookie) IN
    [ok |-> into_result(r.status), st |-> r.status, reg |-> r.reg]

\* WaitSet::remove
waitset_remove(ho, reg, raw, cookie) ==
    LET r == mx_waitset_remove(ho, reg, raw, cookie) IN
    [ok |-> into_result(r.status), st |-> r.status, reg |-> r.reg]

\* WaitSet::wait returning the error without results.clear()
waitset_wait_noclear(ho, reg, obs, raw, results, chosen) ==
    LET num_results == size_to_u32_sat(results.cap)
        r == mx_waitset_wait(ho, reg, obs, raw, num_results, chosen)
    IN  IF ~wait_ok(r.status)
        THEN [ok |-> FALSE, st |-> r.status, max |-> 0, results |-> results]
        ELSE [ok |-> TRUE, st |-> r.status, max |-> r.max_results,
              results |-> [results EXCEPT !.recs = SetLen(@, r.written, r.num_results)]]

\* WaitSet::wait setting the length to max_results
waitset_wait_max(ho, reg, obs, raw, results, chosen) ==
    LET num_results == size_to_u32_sat(results.cap)
        r == mx_waitset_wait(ho, reg, obs, raw, num_results, chosen)
    IN  IF ~wait_ok(r.status)
        THEN [ok |-> FALSE, st |-> r.status, max |-> 0,
              results |-> [results EXCEPT !.recs = <<>>]]
        ELSE [ok |-> TRUE, st |-> r.status, max |-> r.max_results,
              results |-> [results EXCEPT !.recs = SetLen(@, r.written, r.max_results)]]

\* WaitSet::wait: max is the value in the Ok
waitset_wait(ho, reg, obs, raw, results, chosen) ==
    LET num_results == size_to_u32_sat(results.cap)
        r == mx_waitset_wait(ho, reg, obs, raw, num_results, chosen)
    IN  IF ~wait_ok(r.status)
        THEN [ok |-> FALSE, st |-> r.status, max |-> 0,
              results |-> [results EXCEPT !.recs = <<>>]]
        ELSE [ok |-> TRUE, st |-> r.status, max |-> r.max_results,
              results |-> [results EXCEPT !.recs = SetLen(@, r.written, r.num_results)]]

(***************************************************************************)
(* The client: one operation of the library per action.                    *)
(***************************************************************************)
Other == [op |-> "other", ret |-> "", st |-> 0, x |-> 0, y |-> 0]
Ret(op, ret, st, x, y) ==
    IF op \in tracked THEN [op |-> op, ret |-> ret, st |-> st, x |-> x, y |-> y] ELSE Other
IdleRd == [pc |-> "idle", side |-> 0, probes |-> 0, small |-> 0]
Idle == rd.pc = "idle"
Kern == [hobj |-> hobj, queue |-> queue, bad |-> badClose]
\* the kernel has k values left to issue
Room(ho, k) == Cardinality(FreeValues(ho)) >= k

\* the writer's record of the messages still pending after a step
LogAfter(ho, q, w, s, popped) ==
    [t \in Sides |-> IF ~EpAlive(ho, q, t) THEN <<>>
                     ELSE IF popped /\ t = s /\ w[t] # <<>> THEN Tail(w[t]) ELSE w[t]]

SetKernel(K) ==
    /\ hobj' = K.hobj
    /\ queue' = K.queue
    /\ badClose' = K.bad
    /\ wlog' = LogAfter(K.hobj, K.queue, wlog, 0, FALSE)

Start(tr) ==
    /\ tracked = tr
    /\ hobj = [h \in Handles |-> NoObj]
    /\ queue = [s \in Sides |-> <<>>]
    /\ badClose = FALSE
    /\ flavor = "none"
    /\ ep = [s \in Sides |-> 0]
    /\ loose = [h \in Handles |-> 0]
    /\ vec = <<>>
    /\ buf = NewMessageBuf
    /\ rd = IdleRd
    /\ last = Other
    /\ wlog = [s \in Sides |-> <<>>]
    /\ takenIx = {}
    /\ ws = NewWaitSet
    /\ buf2 = NewMessageBuf

\* the vmo objects a handle refers to or a message carries
VmosInUse(ho, q) == VmoObjs \ FreeVmos(ho, q)

\* Channel::create
Create(ok) ==
    /\ Idle /\ flavor = "none" /\ Room(hobj, 2)
    /\ \E r \in {create(hobj, ok)} :
       /\ hobj' = r.hobj
       /\ IF r.ok
          THEN /\ ep' = [s \in Sides |-> IF s = 0 THEN r.e0 ELSE r.e1]
               /\ flavor' = "channel"
               /\ last' = Ret("create", "Ok", r.st, r.e0, r.e1)
          ELSE /\ UNCHANGED <<ep, flavor>>
               /\ last' = Ret("create", "Err", r.st, 0, 0)
    /\ UNCHANGED <<queue, badClose, loose, vec, buf, rd, tracked, buf2, ws, wlog, takenIx>>

\* MessagePipe::create(flags); reply: flags ask for a reply pipe
PipeCreate(ok, reply) ==
    /\ Idle /\ flavor = "none" /\ Room(hobj, 2)
    /\ \E r \in {pipe_create(hobj, ok)} :
       /\ hobj' = r.hobj
       /\ IF r.ok
          THEN /\ ep' = [s \in Sides |-> IF s = 0 THEN r.e0 ELSE r.e1]
               /\ flavor' = IF reply THEN "reply" ELSE "pipe"
               /\ last' = Ret("create", "Ok", r.st, r.e0, r.e1)
          ELSE /\ UNCHANGED <<ep, flavor>>
               /\ last' = Ret("create", "Err", r.st, 0, 0)
    /\ UNCHANGED <<queue, badClose, loose, vec, buf, rd, tracked, buf2, ws, wlog, takenIx>>

\* Vmo::create, while fewer than maxv vmo objects are in use
VmoCreate(ok, maxv) ==
    /\ Idle /\ flavor # "none" /\ Room(hobj, 1)
    /\ Cardinality(VmosInUse(hobj, queue)) < maxv
    /\ \E r \in {mx_vmo_create(hobj, queue, ok)} :
       /\ hobj' = r.hobj
       /\ IF into_result(r.status)
          THEN /\ loose' = [loose EXCEPT ![r.status] = Min(@ + 1, 2)]
               /\ last' = Ret("vmo_create", "Ok", 0, r.status, 0)
          ELSE /\ UNCHANGED loose
               /\ last' = Ret("vmo_create", "Err", r.status, 0, 0)
    /\ UNCHANGED <<queue, badClose, flavor, ep, vec, buf, rd, tracked, buf2, ws, wlog, takenIx>>

\* HandleBase::duplicate on a Handle or Vmo the client holds
Duplicate(h, deny) ==
    /\ Idle /\ loose[h] > 0 /\ Room(hobj, 1)
    /\ \E r \in {duplicate(hobj, h, deny)} :
       /\ hobj' = r.hobj
       /\ loose' = IF r.ok THEN [loose EXCEPT ![r.h] = Min(@ + 1, 2)] ELSE loose
       /\ last' = Ret("duplicate", IF r.ok THEN "Ok" ELSE "Err", r.st, h, r.h)
    /\ UNCHANGED <<queue, badClose, flavor, ep, vec, buf, rd, tracked, buf2, ws, wlog, takenIx>>

\* HandleBase::from_handle: a Handle on an endpoint becomes the endpoint object again
FromHandle(h) ==
    /\ Idle /\ loose[h] > 0 /\ hobj[h] \in EpObjs /\ ep[SideOf(hobj[h])] = 0
    /\ loose' = [loose EXCEPT ![h] = @ - 1]
    /\ ep' = [ep EXCEPT ![SideOf(hobj[h])] = h]
    /\ last' = Ret("from_handle", "", 0, h, 0)
    /\ UNCHANGED <<hobj, queue, badClose, flavor, vec, buf, rd, tracked, buf2, ws, wlog, takenIx>>

\* endpoint.into_handle() on the endpoint object of side s
IntoHandle(s) ==
    /\ Idle /\ ep[s] # 0
    /\ \E r \in {into_handle(Kern, ep[s])} :
       /\ SetKernel(r.K)
       /\ loose' = [loose EXCEPT ![r.h] = Min(@ + 1, 2)]
    /\ ep' = [ep EXCEPT ![s] = 0]
    /\ last' = Ret("into_handle", "", 0, ep[s], 0)
    /\ UNCHANGED <<flavor, vec, buf, rd, tracked, buf2, ws, takenIx>>

\* vec.push(x.into_handle()): a wrapper the client holds moves into the Vec<Handle>
PushVec(h) ==
    /\ Idle /\ loose[h] > 0 /\ Len(vec) < MaxVec
    /\ \E r \in {into_handle(Kern, h)} :
       /\ SetKernel(r.K)
       /\ vec' = Append(vec, r.h)
    /\ loose' = [loose EXCEPT ![h] = @ - 1]
    /\ last' = Other
    /\ UNCHANGED <<flavor, ep, buf, rd, tracked, buf2, ws, takenIx>>

\* the kernel state and the writer's record after a write r of message m to side s
SetKernelWrite(r, s, m) ==
    /\ hobj' = r.hobj
    /\ queue' = r.queue
    /\ wlog' = LogAfter(r.hobj, r.queue,
                        IF r.ok THEN [wlog EXCEPT ![s] = Append(@, m)] ELSE wlog, 0, FALSE)

\* fewer than maxq messages are pending
QueueRoom(maxq) == Len(queue[0]) + Len(queue[1]) < maxq

\* Channel::write on the endpoint of side s
Write(s, bytes, oom, maxq) ==
    /\ Idle /\ flavor = "channel" /\ ep[s] # 0
    /\ \E r \in {write(hobj, queue, flavor, ep[s], bytes, vec, oom)} :
       /\ r.ok => QueueRoom(maxq)
       /\ SetKernelWrite(r, 1 - s,
                         [bytes |-> bytes, objs |-> [i \in 1..Len(vec) |-> hobj[vec[i]]]])
       /\ vec' = r.vec
       /\ last' = Ret("write", IF r.ok THEN "Ok" ELSE "Err", r.st, s, Len(vec))
    /\ UNCHANGED <<badClose, flavor, ep, loose, buf, rd, tracked, buf2, ws, takenIx>>

\* MessagePipe::write on the endpoint of side s
PipeWrite(s, bytes, oom, maxq) ==
    /\ Idle /\ flavor \in {"pipe", "reply"} /\ ep[s] # 0
    /\ \E r \in {pipe_write(hobj, queue, flavor, ep[s], bytes, vec, oom)} :
       /\ r.ok => QueueRoom(maxq)
       /\ SetKernelWrite(r, 1 - s,
                         [bytes |-> bytes, objs |-> [i \in 1..Len(vec) |-> hobj[vec[i]]]])
       /\ vec' = r.vec
       /\ last' = Ret("write", IF r.ok THEN "Ok" ELSE "Err", r.st, s, Len(vec))
    /\ UNCHANGED <<badClose, flavor, ep, loose, buf, rd, tracked, buf2, ws, takenIx>>

\* MessagePipe::write_reply on the endpoint of side s
PipeWriteReply(s, bytes, oom, maxq) ==
    /\ Idle /\ flavor \in {"pipe", "reply"} /\ ep[s] # 0 /\ Len(vec) < MaxVec
    /\ \E r \in {write_reply(hobj, queue, flavor, ep[s], bytes, vec, oom)},
          sent \in {Append(vec, ep[s])} :
       /\ r.ok => QueueRoom(maxq)
       /\ SetKernelWrite(r, 1 - s,
                         [bytes |-> bytes, objs |-> [i \in 1..Len(sent) |-> hobj[sent[i]]]])
       /\ vec' = r.vec
       /\ ep' = [ep EXCEPT ![s] = r.self]
       /\ last' = Ret("write_reply", IF r.ok THEN "Ok" ELSE "Err", r.st, s, Len(vec))
    /\ UNCHANGED <<badClose, flavor, loose, buf, rd, tracked, buf2, ws, takenIx>>

\* the kernel state and the writer's record after a read call r on side s
SetKernelRead(r, s) ==
    /\ hobj' = r.K.hobj
    /\ queue' = r.K.queue
    /\ badClose' = r.K.bad
    /\ wlog' = LogAfter(r.K.hobj, r.K.queue, wlog, s, r.popped)

\* the kernel can issue the handles of the message pending for side s
ReadRoom(s) == queue[s] # <<>> => Room(hobj, Len(Head(queue[s]).objs))

\* Channel::read_raw on the endpoint of side s
ReadRaw(s) ==
    /\ Idle /\ flavor = "channel" /\ ep[s] # 0 /\ buf.alive /\ ReadRoom(s)
    /\ \E r \in {read_raw(Kern, ep[s], buf)} :
       /\ SetKernelRead(r, s)
       /\ buf' = r.buf
       /\ last' = Ret("read_raw", r.ret, r.st, r.nb, r.nh)
    /\ takenIx' = {}
    /\ UNCHANGED <<flavor, ep, loose, vec, rd, tracked, buf2, ws>>

\* Channel::read on the endpoint of side s, one turn of its loop per step; y is the
\* number of handles the buffer held when the turn began
ReadTurn(s) ==
    /\ flavor = "channel" /\ ep[s] # 0 /\ buf.alive /\ ReadRoom(s)
    /\ Idle \/ (rd.pc = "loop" /\ rd.side = s /\ rd.probes < MaxProbes)
    /\ \E r \in {read_turn(Kern, ep[s], buf)} :
       /\ SetKernelRead(r, s)
       /\ buf' = r.buf
       /\ IF r.ret = "TooSmall"
          THEN /\ rd' = [pc |-> "loop", side |-> s, probes |-> rd.probes + 1,
                         small |-> rd.small + 1]
               /\ last' = Ret("read_turn", r.ret, r.st, r.nb, r.nh)
          ELSE /\ rd' = IdleRd
               /\ last' = Ret("read", r.ret, r.st, rd.probes + 1, Held(buf))
    /\ takenIx' = {}
    /\ UNCHANGED <<flavor, ep, loose, vec, tracked, buf2, ws>>

\* MessagePipe::read on the endpoint of side s; y is the number of handles the
\* buffer held at the call
PipeRead(s) ==
    /\ Idle /\ flavor \in {"pipe", "reply"} /\ ep[s] # 0 /\ buf.alive /\ ReadRoom(s)
    /\ \E r \in {pipe_read(Kern, ep[s], buf)} :
       /\ SetKernelRead(r, s)
       /\ buf' = r.buf
       /\ last' = Ret("read", r.ret, r.st, r.calls, pipe_n_handles(buf))
    /\ takenIx' = {}
    /\ UNCHANGED <<flavor, ep, loose, vec, rd, tracked, buf2, ws>>

\* MessagePipe::read on the endpoint of side s up to its second kernel call; when
\* the first call was not too small the read returns in this step
PipeReadFirst(s) ==
    /\ Idle /\ flavor \in {"pipe", "reply"} /\ ep[s] # 0 /\ buf.alive /\ ReadRoom(s)
    /\ \E r \in {pipe_read_first(Kern, ep[s], buf)} :
       /\ SetKernelRead(r, s)
       /\ buf' = r.buf
       /\ IF r.small
          THEN /\ rd' = [pc |-> "retry", side |-> s, probes |-> 1, small |-> 1]
               /\ last' = Ret("read_first", r.ret, r.st, r.nb, r.nh)
          ELSE /\ rd' = IdleRd
               /\ last' = Ret("read", r.ret, r.st, 1, pipe_n_handles(buf))
    /\ takenIx' = {}
    /\ UNCHANGED <<flavor, ep, loose, vec, tracked, buf2, ws>>

\* the second kernel call of the MessagePipe::read in progress and its return
PipeReadSecond(s) ==
    /\ rd.pc = "retry" /\ rd.side = s /\ ReadRoom(s)
    /\ \E r \in {pipe_read_second(Kern, ep[s], buf)} :
       /\ SetKernelRead(r, s)
       /\ buf' = r.buf
       /\ last' = Ret("read", r.ret, r.st, rd.probes + 1, pipe_n_handles(buf))
    /\ rd' = IdleRd
    /\ takenIx' = {}
    /\ UNCHANGED <<flavor, ep, loose, vec, tracked, buf2, ws>>

\* a second reader of the endpoint of side s (another thread holding the same
\* &Channel or &MessagePipe) gives its own MessageBuf room for any message and
\* reads into it: read_raw on a Channel, read on a MessagePipe. It runs whether or
\* not a read of the first reader is in progress.
OtherRead(s) ==
    /\ flavor # "none" /\ ep[s] # 0 /\ buf2.alive /\ ReadRoom(s)
    /\ \E b \in {ensure_capacity_handles(ensure_capacity_bytes(buf2, MaxBytes), MaxVec)} :
       \E r \in {IF flavor = "channel" THEN read_raw(Kern, ep[s], b)
                  ELSE pipe_read(Kern, ep[s], b)} :
          /\ SetKernelRead(r, s)
          /\ buf2' = r.buf
          /\ last' = Ret("other_read", r.ret, r.st, r.nb, r.nh)
    /\ UNCHANGED <<flavor, ep, loose, vec, buf, rd, tracked, ws, takenIx>>

\* channel::MessageBuf::take_handle(index)
TakeHandle(index) ==
    /\ Idle /\ flavor = "channel" /\ buf.alive
    /\ \E r \in {take_handle(buf, index)} :
       /\ buf' = r.buf
       /\ IF r.some
          THEN /\ loose' = [loose EXCEPT ![r.h] = Min(@ + 1, 2)]
               /\ takenIx' = takenIx \cup {index}
               /\ last' = Ret("take_handle", "Some", 0, index, r.h)
          ELSE /\ UNCHANGED <<loose, takenIx>>
               /\ last' = Ret("take_handle", "None", 0, index, 0)
    /\ UNCHANGED <<hobj, queue, badClose, flavor, ep, vec, rd, tracked, buf2, ws, wlog>>

\* buf.handles().next() on the MessageBuf of lib.rs
HandleNext ==
    /\ Idle /\ flavor \in {"pipe", "reply"} /\ buf.alive
    /\ \E r \in {HandleIter_next(buf)} :
       /\ buf' = r.buf
       /\ IF r.some
          THEN /\ loose' = [loose EXCEPT ![r.h] = Min(@ + 1, 2)]
               /\ takenIx' = takenIx \cup {buf.unused_ix}
               /\ last' = Ret("next", "Some", 0, buf.unused_ix, r.h)
          ELSE /\ UNCHANGED <<loose, takenIx>>
               /\ last' = Ret("next", "None", 0, buf.unused_ix, 0)
    /\ UNCHANGED <<hobj, queue, badClose, flavor, ep, vec, rd, tracked, buf2, ws, wlog>>

\* MessageBuf::ensure_capacity_bytes(n_bytes); ensure_capacity_handles(n_handles)
EnsureCapacity(n_bytes, n_handles) ==
    /\ Idle /\ flavor = "channel" /\ buf.alive
    /\ buf' = ensure_capacity_handles(ensure_capacity_bytes(buf, n_bytes), n_handles)
    /\ last' = Other
    /\ UNCHANGED <<hobj, queue, badClose, flavor, ep, loose, vec, rd, tracked, buf2, ws, wlog, takenIx>>

\* Drop for Handle, on a wrapper the client holds
DropHandle(h) ==
    /\ Idle /\ loose[h] > 0
    /\ SetKernel(handle_drop(Kern, h))
    /\ loose' = [loose EXCEPT ![h] = @ - 1]
    /\ last' = Other
    /\ UNCHANGED <<flavor, ep, vec, buf, rd, tracked, buf2, ws, takenIx>>

\* the client drops its Vec<Handle>
DropVec ==
    /\ Idle /\ vec # <<>>
    /\ SetKernel(drop_vec(Kern, vec))
    /\ vec' = <<>>
    /\ last' = Other
    /\ UNCHANGED <<flavor, ep, loose, buf, rd, tracked, buf2, ws, takenIx>>

\* Drop for MessageBuf: the one of channel.rs with a Channel, the one of lib.rs with
\* a MessagePipe
DropBuf ==
    /\ Idle /\ buf.alive
    /\ SetKernel(IF flavor \in {"pipe", "reply"}
                 THEN pipe_drop_handles(Kern, buf)
                 ELSE drop_handles(Kern, buf.handles))
    /\ buf' = DeadMessageBuf
    /\ takenIx' = {}
    /\ last' = Ret("drop_buf", "", 0, Len(buf.handles), Cardinality(takenIx))
    /\ UNCHANGED <<flavor, ep, loose, vec, rd, tracked, buf2, ws>>

\* the client drops the endpoint object of side s
DropEndpoint(s) ==
    /\ Idle /\ ep[s] # 0
    /\ SetKernel(handle_drop(Kern, ep[s]))
    /\ ep' = [ep EXCEPT ![s] = 0]
    /\ last' = Other
    /\ UNCHANGED <<flavor, loose, vec, buf, rd, tracked, buf2, ws, takenIx>>

(***************************************************************************)
(* Ownership: every operation on handles, messages without payload.        *)
(***************************************************************************)
Init == Start({"create", "write", "write_reply", "read", "drop_buf"})

Next ==
    \/ \E ok \in BOOLEAN : Create(ok)
    \/ \E ok, reply \in BOOLEAN : PipeCreate(ok, reply)
    \/ \E ok \in BOOLEAN : VmoCreate(ok, 1)
    \/ \E h \in Handles, deny \in BOOLEAN : Duplicate(h, deny)
    \/ \E h \in Handles : FromHandle(h)
    \/ \E h \in Handles : PushVec(h)
    \/ \E s \in Sides, oom \in BOOLEAN, bytes \in {<<>>, Oversize} :
          Write(s, bytes, oom, MaxPending)
    \/ \E s \in Sides, oom \in BOOLEAN, bytes \in {<<>>, Oversize} :
          PipeWrite(s, bytes, oom, MaxPending)
    \/ \E s \in Sides, oom \in BOOLEAN, bytes \in {<<>>, Oversize} :
          PipeWriteReply(s, bytes, oom, MaxPending)
    \/ \E s \in Sides : ReadTurn(s)
    \/ \E s \in Sides : PipeRead(s)
    \/ \E i \in 0..MaxVec : TakeHandle(i)
    \/ HandleNext
    \/ \E h \in Handles : DropHandle(h)
    \/ DropVec
    \/ DropBuf
    \/ \E s \in Sides : DropEndpoint(s)

Spec == Init /\ [][Next]_vars

(***************************************************************************)
(* Transfer: one channel, payloads of every length, buffers of every       *)
(* capacity, what each read returns.                                       *)
(***************************************************************************)
InitXfer == Start({"write", "read_raw", "read_turn", "read"})

NextXfer ==
    \/ Create(TRUE)
    \/ VmoCreate(TRUE, MaxVmos)
    \/ \E h \in Handles : PushVec(h)
    \/ \E bytes \in Payloads : Write(0, bytes, FALSE, MaxQueue)
    \/ \E s \in Sides : ReadRaw(s)
    \/ \E s \in Sides : ReadTurn(s)
    \/ \E nb \in 0..MaxBytes, nh \in 0..MaxVec : EnsureCapacity(nb, nh)

SpecXfer == InitXfer /\ [][NextXfer]_vars

(***************************************************************************)
(* Two readers of one endpoint: a Channel::read or a MessagePipe::read one *)
(* kernel call per step, and a second reader that takes messages between   *)
(* the calls.                                                              *)
(***************************************************************************)
InitRace == Start({"read_turn", "read_first", "read", "other_read"})

NextRace ==
    \/ Create(TRUE)
    \/ PipeCreate(TRUE, FALSE)
    \/ VmoCreate(TRUE, MaxVmos)
    \/ \E h \in Handles : PushVec(h)
    \/ \E bytes \in Payloads : Write(0, bytes, FALSE, MaxQueue)
    \/ \E bytes \in Payloads : PipeWrite(0, bytes, FALSE, MaxQueue)
    \/ ReadTurn(1)
    \/ PipeReadFirst(1)
    \/ PipeReadSecond(1)
    \/ OtherRead(1)

SpecRace == InitRace /\ [][NextRace]_vars

(***************************************************************************)
(* Classification: what each wrapper returns for a status of its kernel    *)
(* call. x is the kernel's status, st the code in the Err, y is 1 when the *)
(* success closure ran.                                                    *)
(***************************************************************************)
Statuses == (-MaxStatus)..MaxStatus

Classified(op, ok, status) ==
    /\ last' = Ret(op, IF ok THEN "Ok" ELSE "Err", IF ok THEN 0 ELSE status,
                   status, IF ok THEN 1 ELSE 0)
    /\ UNCHANGED <<hobj, queue, badClose, flavor, ep, loose, vec, buf, rd, tracked, buf2, ws,
                   wlog, takenIx>>

\* the wrappers that end in into_result(status, ...): Channel::create, write and
\* read_raw, MessagePipe::create and read, WaitSet::create, add and remove,
\* Vmo::create, get_size and set_size, HandleRef::wait
IntoResultOf(status) == Classified("into_result", into_result(status), status)

\* MessagePipe::write_raw, write and write_reply
WriteRawOf(status) == Classified("write_raw", write_raw_ok(status), status)

\* WaitSet::wait
WaitOf(status) == Classified("waitset_wait", wait_ok(status), status)

\* Vmo::read and Vmo::write
VmoIoOf(ssize) == Classified("vmo_io", vmo_io_ok(ssize), ssize)

\* HandleRef::duplicate
DuplicateOf(result) == Classified("duplicate", duplicate_ok(result), result)

InitStatus == Start({"into_result", "write_raw", "waitset_wait", "vmo_io", "duplicate"})

NextStatus ==
    \/ \E status \in Statuses : IntoResultOf(status)
    \/ \E status \in Statuses : WriteRawOf(status)
    \/ \E status \in Statuses : WaitOf(status)
    \/ \E ssize \in Statuses : VmoIoOf(ssize)
    \/ \E result \in Statuses : DuplicateOf(result)

SpecStatus == InitStatus /\ [][NextStatus]_vars

(***************************************************************************)
(* Conversions: the wrappers of a pair and of a vmo turned into Handles    *)
(* and back, and dropped.                                                  *)
(***************************************************************************)
InitConv == Start({"into_handle", "from_handle"})

NextConv ==
    \/ Create(TRUE)
    \/ \E reply \in BOOLEAN : PipeCreate(TRUE, reply)
    \/ VmoCreate(TRUE, MaxVmos)
    \/ \E h \in Handles, deny \in BOOLEAN : Duplicate(h, deny)
    \/ \E s \in Sides : IntoHandle(s)
    \/ \E h \in Handles : FromHandle(h)
    \/ \E h \in Handles : PushVec(h)
    \/ \E h \in Handles : DropHandle(h)
    \/ DropVec
    \/ \E s \in Sides : DropEndpoint(s)

SpecConv == InitConv /\ [][NextConv]_vars

(***************************************************************************)
(* Wait sets: one WaitSet over the two endpoints of a channel.             *)
(***************************************************************************)
\* WaitSet::create
WsCreate(ok) ==
    /\ Idle /\ flavor # "none" /\ ws.h = 0 /\ Room(hobj, 1)
    /\ \E r \in {waitset_create(hobj, ok)} :
       /\ hobj' = r.hobj
       /\ ws' = [ws EXCEPT !.h = r.h]
       /\ last' = Ret("ws_create", IF r.ok THEN "Ok" ELSE "Err", r.st, r.h, 0)
    /\ UNCHANGED <<queue, badClose, flavor, ep, loose, vec, buf, rd, tracked, buf2, wlog, takenIx>>

\* WaitSet::add(&endpoint of side s, cookie, signals)
WsAdd(cookie, s, signals) ==
    /\ Idle /\ ws.h # 0 /\ ep[s] # 0
    /\ \E r \in {waitset_add(hobj, ws.reg, ws.h, ep[s], signals, cookie)} :
       /\ ws' = [ws EXCEPT !.reg = r.reg]
       /\ last' = Ret("ws_add", IF r.ok THEN "Ok" ELSE "Err", r.st, cookie, 0)
    /\ UNCHANGED <<hobj, queue, badClose, flavor, ep, loose, vec, buf, rd, tracked, buf2, wlog,
                   takenIx>>

\* WaitSet::remove(cookie)
WsRemove(cookie) ==
    /\ Idle /\ ws.h # 0
    /\ \E r \in {waitset_remove(hobj, ws.reg, ws.h, cookie)} :
       /\ ws' = [ws EXCEPT !.reg = r.reg]
       /\ last' = Ret("ws_remove", IF r.ok THEN "Ok" ELSE "Err", r.st, cookie, 0)
    /\ UNCHANGED <<hobj, queue, badClose, flavor, ep, loose, vec, buf, rd, tracked, buf2, wlog,
                   takenIx>>

\* the active signals of the endpoint of side s become bits
Signal(s, bits) ==
    /\ Idle /\ ep[s] # 0 /\ ws.obs[ep[s]] # bits
    /\ ws' = [ws EXCEPT !.obs[ep[s]] = bits]
    /\ last' = Other
    /\ UNCHANGED <<hobj, queue, badClose, flavor, ep, loose, vec, buf, rd, tracked, buf2, wlog,
                   takenIx>>

\* results = Vec::with_capacity(cap)
NewResults(cap) ==
    /\ Idle
    /\ ws' = [ws EXCEPT !.results = [cap |-> cap, recs |-> <<>>]]
    /\ last' = Other
    /\ UNCHANGED <<hobj, queue, badClose, flavor, ep, loose, vec, buf, rd, tracked, buf2, wlog,
                   takenIx>>

\* WaitSet::wait(timeout, &mut results); x is the value in the Ok, y the capacity of
\* results at the call
WsWait ==
    /\ Idle /\ ws.h # 0
    /\ \E chosen \in WaitChoices(ws.reg, ws.obs, size_to_u32_sat(ws.results.cap)) :
       \E r \in {waitset_wait(hobj, ws.reg, ws.obs, ws.h, ws.results, chosen)} :
          /\ ws' = [ws EXCEPT !.results = r.results]
          /\ last' = Ret("ws_wait", IF r.ok THEN "Ok" ELSE "Err", r.st, r.max,
                         ws.results.cap)
    /\ UNCHANGED <<hobj, queue, badClose, flavor, ep, loose, vec, buf, rd, tracked, buf2, wlog,
                   takenIx>>

InitWait == Start({"ws_add", "ws_remove", "ws_wait"})

NextWait ==
    \/ Create(TRUE)
    \/ \E ok \in BOOLEAN : WsCreate(ok)
    \/ \E cookie \in Cookies, s \in Sides, signals \in SUBSET SigBits \ {{}} :
          WsAdd(cookie, s, signals)
    \/ \E cookie \in Cookies : WsRemove(cookie)
    \/ \E s \in Sides, bits \in SUBSET SigBits : Signal(s, bits)
    \/ \E cap \in 0..MaxResults : NewResults(cap)
    \/ WsWait

SpecWait == InitWait /\ [][NextWait]_vars

(***************************************************************************)
(* Properties.                                                             *)
(***************************************************************************)
\* what the caller sees of the buffer
bytes_of(b) == b.bytes
n_handles(b) == Len(b.handles)

\* the kernel state after a step
KernNext == [hobj |-> hobj', queue |-> queue', bad |-> badClose']

\* the received handles of b name, in order, the objects of the written message m
SameObjects(ho, b, m) ==
    /\ n_handles(b) = Len(m.objs)
    /\ \A i \in 1..Len(m.objs) : Live(ho, b.handles[i]) /\ ho[b.handles[i]] = m.objs[i]

\* C1: round trip. A Channel::read that returns while a written message is
\* pending for its endpoint returns Ok and leaves in the buffer the bytes of the
\* earliest such message as its writer passed them, as many handles as the writer
\* passed, and each received handle names the object the written handle named.
C1_RoundTrip ==
    [][\A s \in Sides :
          (ReadTurn(s) /\ rd'.pc = "idle" /\ wlog[s] # <<>>) =>
              /\ last'.ret = "Ok"
              /\ bytes_of(buf') = Head(wlog[s]).bytes
              /\ SameObjects(hobj', buf', Head(wlog[s]))]_vars

\* a read that needed a second turn returned a message with a payload and a handle
C1_Witness ==
    /\ last.op = "read" /\ last.ret = "Ok" /\ last.x = 2
    /\ Len(buf.bytes) = MaxBytes /\ n_handles(buf) = MaxVec
    /\ hobj[buf.handles[1]] # hobj[buf.handles[2]]

\* C2: a read_raw that returns the too-small outcome leaves the queue of its
\* endpoint as it was, and a read_raw with a buffer of the reported capacities
\* right after it returns Ok with the bytes and the objects the writer passed.
C2_TooSmallKeepsMessage ==
    [][\A s \in Sides :
          (ReadRaw(s) /\ last'.ret = "TooSmall") =>
              /\ wlog[s] # <<>>
              /\ queue'[s] = queue[s]
              /\ wlog'[s] = wlog[s]
              /\ LET big == [buf' EXCEPT !.bcap = Max(@, last'.x), !.hcap = Max(@, last'.y)]
                     again == read_raw(KernNext, ep[s], big)
                 IN /\ again.ret = "Ok"
                    /\ bytes_of(again.buf) = Head(wlog[s]).bytes
                    /\ SameObjects(again.K.hobj, again.buf, Head(wlog[s]))]_vars

\* read_raw was too small for a message that has a payload and a handle, and a
\* second message is pending behind it
C2_Witness ==
    /\ last.op = "read_raw" /\ last.ret = "TooSmall" /\ last.x > 0 /\ last.y > 0
    /\ Len(queue[1]) = 2

\* the pending message for side s is larger than the capacity of the buffer
Exceeds(s) ==
    /\ wlog[s] # <<>>
    /\ \/ Len(Head(wlog[s]).bytes) > buf.bcap
       \/ Len(Head(wlog[s]).objs) > buf.hcap

\* C3: read_raw returns the too-small outcome with the byte count and the handle
\* count of the pending head message exactly when that message exceeds the byte
\* or the handle capacity of the buffer; otherwise it returns Ok with a success
\* (a message was pending) or a failure status (none was).
C3_TooSmallExact ==
    [][\A s \in Sides :
          ReadRaw(s) =>
              IF Exceeds(s)
              THEN last' = [op |-> "read_raw", ret |-> "TooSmall",
                            st |-> ERR_BUFFER_TOO_SMALL,
                            x |-> Len(Head(wlog[s]).bytes),
                            y |-> Len(Head(wlog[s]).objs)]
              ELSE /\ last'.op = "read_raw"
                   /\ last'.ret = IF wlog[s] # <<>> THEN "Ok" ELSE "Err"]_vars

\* the scenario of the test: a payload and no handle, read into a buffer of capacity 0
C3_Witness ==
    /\ last = [op |-> "read_raw", ret |-> "TooSmall", st |-> ERR_BUFFER_TOO_SMALL,
               x |-> MaxBytes, y |-> 0]
    /\ buf.bcap = 0 /\ buf.hcap = 0

\* C9: Channel::read returns after at most two read_raw calls. While it is in its
\* loop it has seen one too-small outcome, the buffer has since been grown to the
\* reported sizes, and the next read_raw on the unchanged head message is not
\* too small.
C9_ReadTerminates ==
    /\ rd.pc = "loop" =>
          /\ rd.probes = 1
          /\ ~Exceeds(rd.side)
          /\ read_raw(Kern, ep[rd.side], buf).ret # "TooSmall"
          /\ ENABLED ReadTurn(rd.side)
    /\ last.op = "read" => last.x <= 2

\* a read that was too small once has returned
C9_Witness == last.op = "read" /\ last.x = 2 /\ rd.pc = "idle"

\* C10: after a read attempt that did not succeed the buffer shows no bytes and
\* no handles.
C10_FailedReadEmptiesBuffer ==
    (last.op \in {"read_raw", "read_turn", "read"} /\ last.ret \in {"TooSmall", "Err"}) =>
        bytes_of(buf) = <<>> /\ n_handles(buf) = 0

\* a failed read_raw on a buffer that still shows the bytes of the message before
C10_Stale ==
    /\ last.op = "read_raw" /\ last.ret = "Err" /\ last.st = ERR_SHOULD_WAIT
    /\ Len(bytes_of(buf)) = MaxBytes

\* the number of places of seq that hold h
Count(seq, h) == Cardinality({i \in 1..Len(seq) : seq[i] = h})

\* the slots of the MessageBuf that still own their handle
UntakenSlots ==
    IF flavor \in {"pipe", "reply"}
    THEN (buf.unused_ix + 1)..Len(buf.handles)
    ELSE {i \in 1..Len(buf.handles) : buf.handles[i] # INVALID_HANDLE}

\* the owners of raw handle h: wrappers the client holds, endpoint objects, elements
\* of the Vec<Handle>, untaken slots of the MessageBuf
Owners(h) ==
    loose[h] + Cardinality({s \in Sides : ep[s] = h}) + Count(vec, h)
        + Cardinality({i \in UntakenSlots : buf.handles[i] = h})

\* the client holds no object
AllDropped ==
    /\ \A s \in Sides : ep[s] = 0
    /\ \A h \in Handles : loose[h] = 0
    /\ vec = <<>>
    /\ ~buf.alive

\* C4: take_handle is take-once. take_handle(i) on a slot i of the received
\* handles that no call has taken since the read gives the client one wrapper on
\* the live raw handle of that slot, which then has that wrapper as its only
\* owner; on a slot already taken, or with i beyond the received handles, it
\* returns None and creates no wrapper and changes nothing.
C4_TakeOnce ==
    [][\A i \in 0..MaxVec :
          TakeHandle(i) =>
              IF i < n_handles(buf) /\ i \notin takenIx
              THEN LET h == buf.handles[i + 1] IN
                   /\ h # INVALID_HANDLE /\ Live(hobj, h)
                   /\ loose' = [loose EXCEPT ![h] = 1]
                   /\ n_handles(buf') = n_handles(buf)
                   /\ \A g \in Handles : Owners(g)' = Owners(g)
              ELSE UNCHANGED <<loose, buf, hobj>>]_vars

\* of two received handles the second has been taken and the first has not
C4_Witness ==
    /\ flavor = "channel" /\ buf.alive /\ n_handles(buf) = 2 /\ takenIx = {1}
    /\ buf.handles[1] # INVALID_HANDLE /\ buf.handles[2] = INVALID_HANDLE
    /\ \E h \in Handles : loose[h] = 1

\* C5: dropping a MessageBuf closes exactly its untaken handles. The handles that
\* stop being live in the step are the raw handles of the untaken slots, one per
\* slot, every other handle stays as it was, and no close names a value that is
\* no live handle.
C5_DropClosesUntaken ==
    [][DropBuf =>
          LET untaken == {buf.handles[i] : i \in UntakenSlots} IN
          /\ Cardinality(untaken) = Cardinality(UntakenSlots)
          /\ \A h \in Handles :
                IF h \in untaken
                THEN Live(hobj, h) /\ ~Live(hobj', h)
                ELSE hobj'[h] = hobj[h]
          /\ badClose' = badClose]_vars

\* a channel buffer was dropped with two slots of which one had been taken, and
\* the taken handle is still live with its owner
C5_Witness ==
    /\ flavor = "channel" /\ ~buf.alive
    /\ last = [op |-> "drop_buf", ret |-> "", st |-> 0, x |-> 2, y |-> 1]
    /\ \E h \in Handles : loose[h] = 1 /\ hobj[h] \in VmoObjs

\* C6: write transfers the handles only on success. When Channel::write or
\* MessagePipe::write returns Ok the Vec is empty, no written handle is in the
\* handle table of the process any more and the objects are in the message; when
\* it returns Err the Vec is as it was, every handle of it is live and names the
\* object it named, and dropping the Vec then closes each of them and nothing else.
C6_WriteTransfersOnSuccess ==
    [][\A s \in Sides, oom \in BOOLEAN :
          (Write(s, <<>>, oom, MaxPending) \/ PipeWrite(s, <<>>, oom, MaxPending)) =>
              IF last'.ret = "Ok"
              THEN /\ vec' = <<>>
                   /\ \A i \in 1..Len(vec) : ~Live(hobj', vec[i])
                   /\ wlog'[1 - s] # <<>>
                   /\ queue'[1 - s][Len(queue'[1 - s])].objs
                          = [i \in 1..Len(vec) |-> hobj[vec[i]]]
              ELSE /\ vec' = vec
                   /\ hobj' = hobj
                   /\ \A i \in 1..Len(vec) : Live(hobj', vec[i]) /\ Owners(vec[i])' = 1
                   /\ LET K == drop_vec([KernNext EXCEPT !.bad = FALSE], vec') IN
                      /\ ~K.bad
                      /\ \A h \in Handles :
                            IF h \in Range(vec) THEN ~Live(K.hobj, h)
                            ELSE K.hobj[h] = hobj[h]]_vars

\* MessagePipe::write failed with two handles, which the caller still holds
C6_Witness ==
    /\ flavor = "pipe" /\ last.op = "write" /\ last.ret = "Err" /\ last.y = 2
    /\ Len(vec) = 2 /\ \A i \in 1..2 : Live(hobj, vec[i])

\* C7: single owner. No raw handle has two owners, an owned raw handle is live,
\* and duplicate gives its caller a wrapper on a raw handle that is not the one
\* it was called on and that was not live before.
C7_SingleOwner ==
    /\ [](\A h \in Handles : Owners(h) <= 1 /\ (Owners(h) = 1 => Live(hobj, h)))
    /\ [][\A h \in Handles, deny \in BOOLEAN :
             (Duplicate(h, deny) /\ loose' # loose) =>
                 \E n \in Handles :
                    /\ n # h /\ ~Live(hobj, n) /\ hobj'[n] = hobj[h]
                    /\ loose' = [loose EXCEPT ![n] = 1]]_vars

\* the four handles have one owner each, of four kinds: an endpoint object, a
\* wrapper the client holds on a duplicate, an element of the Vec, an untaken slot
C7_Witness ==
    /\ \A h \in Handles : Owners(h) = 1
    /\ \E h \in Handles : loose[h] = 1
    /\ Len(vec) = 1
    /\ \E i \in UntakenSlots : hobj[buf.handles[i]] = hobj[vec[1]]
    /\ \E s \in Sides : ep[s] # 0

\* C8: exactly-once close. No close ever names a value that is no live handle of
\* the process (a handle closed before, or transferred), every live handle has
\* exactly one owner that will close it, and once the client has dropped every
\* object no handle of the process is left open.
C8_ExactlyOnceClose ==
    /\ ~badClose
    /\ \A h \in Handles : Live(hobj, h) => Owners(h) = 1
    /\ AllDropped => \A h \in Handles : ~Live(hobj, h)

\* everything is dropped after a reply pipe was used, the last object dropped being
\* a buffer with an untaken handle and one the iterator had handed out
C8_Witness ==
    /\ AllDropped /\ flavor = "reply"
    /\ last.op = "drop_buf" /\ last.x = 2 /\ last.y = 1

(***************************************************************************)
(* Errors of write and write_reply.                                        *)
(***************************************************************************)
\* a Vec<Handle> one longer than a u32 can count, on the raw handle h
LongVec(h) == [i \in 1..(U32_MAX + 1) |-> h]

\* C11: write fails fast on oversize input. A Channel::write or MessagePipe::write
\* whose byte slice is longer than a u32 can count returns ERR_OUT_OF_RANGE and
\* leaves the handle table, both queues and the caller's Vec<Handle> as they were;
\* write and write_raw report the same, without a kernel call, for a Vec<Handle>
\* that is too long.
C11_OversizeFailsFast ==
    [][/\ \A s \in Sides, oom \in BOOLEAN :
            (Write(s, Oversize, oom, MaxPending) \/ PipeWrite(s, Oversize, oom, MaxPending))
            => /\ last' = [op |-> "write", ret |-> "Err", st |-> ERR_OUT_OF_RANGE,
                           x |-> s, y |-> Len(vec)]
               /\ UNCHANGED <<hobj, queue, badClose, vec, ep, wlog>>
               /\ ~write(hobj, queue, flavor, ep[s], Oversize, vec, oom).called
               /\ ~write_raw(hobj, queue, flavor, ep[s], Oversize, vec, oom).called
       /\ \A s \in Sides, oom \in BOOLEAN, bytes \in {<<>>, Oversize} :
            ep[s] # 0 =>
              \A r \in {write(hobj, queue, flavor, ep[s], bytes, LongVec(ep[s]), oom),
                        write_raw(hobj, queue, flavor, ep[s], bytes, LongVec(ep[s]), oom)} :
                 /\ ~r.ok /\ r.st = ERR_OUT_OF_RANGE /\ ~r.called
                 /\ r.vec = LongVec(ep[s]) /\ r.hobj = hobj /\ r.queue = queue]_vars

\* an oversize write was refused while the caller held handles in its Vec
C11_Witness ==
    /\ last.op = "write" /\ last.ret = "Err" /\ last.st = ERR_OUT_OF_RANGE
    /\ vec # <<>>

\* C12: a failed write_reply gives the endpoint back. When MessagePipe::write_reply
\* returns Err, from the kernel or from the local length test, the MessagePipe in
\* the error wraps the raw handle the call was made on, that handle is still open
\* and names the same endpoint, the caller's Vec<Handle> has the length and the
\* contents it had before the call, nothing was closed or queued, and a write on the
\* returned endpoint is not refused as a bad handle.
C12_ReplyFailureRestores ==
    [][\A s \in Sides, oom \in BOOLEAN, bytes \in {<<>>, Oversize} :
          (PipeWriteReply(s, bytes, oom, MaxPending) /\ last'.ret = "Err")
          => /\ ep' = ep /\ vec' = vec
             /\ UNCHANGED <<hobj, queue, badClose, loose, wlog>>
             /\ Live(hobj', ep'[s]) /\ hobj'[ep'[s]] = EpObj(s)
             /\ bytes = Oversize => last'.st = ERR_OUT_OF_RANGE
             /\ pipe_write(hobj', queue', flavor', ep'[s], <<>>, vec', FALSE).st
                   # ERR_BAD_HANDLE]_vars

\* a write_reply the kernel refused, made with handles in the caller's Vec
C12_Witness ==
    /\ last.op = "write_reply" /\ last.ret = "Err" /\ last.st # ERR_OUT_OF_RANGE
    /\ vec # <<>> /\ ep[last.x] # 0

(***************************************************************************)
(* Status classification.                                                  *)
(***************************************************************************)
ThroughIntoResult == {"into_result", "vmo_io", "duplicate"}
ThroughNoError == {"write_raw", "waitset_wait"}

\* C13: status classification. into_result, Vmo::read, Vmo::write and duplicate
\* return Ok for every non-negative status of the kernel call, running the success
\* closure on that branch only, and Err with the kernel's code for every negative
\* one; MessagePipe::write_raw and WaitSet::wait return Ok for NO_ERROR alone and
\* Err with the kernel's code for every other status, the positive ones included.
C13_Classification ==
    /\ last.op \in ThroughIntoResult =>
         /\ last.ret = "Ok" <=> last.x >= 0
         /\ last.y = 1 <=> last.x >= 0
         /\ last.ret = "Err" => last.st = last.x
    /\ last.op \in ThroughNoError =>
         /\ last.ret = "Ok" <=> last.x = NO_ERROR
         /\ last.ret = "Err" => last.st = last.x

\* C13 as stated: every wrapper returns Ok exactly for the non-negative statuses
C13_Uniform ==
    last.op \in ThroughIntoResult \cup ThroughNoError =>
       /\ last.ret = "Ok" <=> last.x >= 0
       /\ last.ret = "Err" => last.st = last.x

\* write_raw returned Err for a positive status of mx_msgpipe_write
C13_Witness == last.op = "write_raw" /\ last.x > 0 /\ last.ret = "Err" /\ last.st = last.x

(***************************************************************************)
(* Order of delivery.                                                      *)
(***************************************************************************)
\* the message m went to the end of the pending messages of side t
Enqueued(t, m) ==
    /\ wlog'[t] = Append(wlog[t], m)
    /\ Len(queue'[t]) = Len(queue[t]) + 1
    /\ SubSeq(queue'[t], 1, Len(queue[t])) = queue[t]

\* C14: FIFO delivery. The messages written with success to one endpoint are read
\* on its peer in the order of the writes: a write puts its message behind the
\* pending ones, a read_raw or read that returns Ok delivers the earliest written
\* message not yet delivered and takes exactly that one off, and a read attempt that
\* returns the too-small outcome or an error takes nothing off.
C14_Fifo ==
    [][/\ \A bytes \in Payloads :
            (Write(0, bytes, FALSE, MaxQueue) /\ last'.ret = "Ok")
            => Enqueued(1, [bytes |-> bytes,
                            objs |-> [i \in 1..Len(vec) |-> hobj[vec[i]]]])
       /\ \A s \in Sides :
            (ReadRaw(s) \/ ReadTurn(s))
            => IF last'.ret = "Ok"
               THEN /\ wlog[s] # <<>>
                    /\ bytes_of(buf') = Head(wlog[s]).bytes
                    /\ SameObjects(hobj', buf', Head(wlog[s]))
                    /\ wlog'[s] = Tail(wlog[s])
                    /\ queue'[s] = Tail(queue[s])
               ELSE /\ wlog'[s] = wlog[s]
                    /\ queue'[s] = queue[s]]_vars

\* a read that was retried after the too-small outcome delivered the first of two
\* different messages, the second is still pending
C14_Witness ==
    /\ last.op = "read" /\ last.ret = "Ok" /\ last.x = 2
    /\ Len(wlog[1]) = 1 /\ queue[1] # <<>>
    /\ Head(wlog[1]).bytes # bytes_of(buf)

(***************************************************************************)
(* The handle count of a MessageBuf.                                       *)
(***************************************************************************)
\* C15: n_handles of the MessageBuf of channel.rs is the number of handles the last
\* successful read delivered. A read that returns a pending message sets it to the
\* number of handles the writer passed, take_handle leaves it as it was whether it
\* returns Some or None, and between reads nothing but dropping the buffer changes
\* it.
C15_CountKeptByTake ==
    [][/\ \A i \in 0..MaxVec :
            TakeHandle(i) => /\ n_handles(buf') = n_handles(buf)
                             /\ \A j \in takenIx' : j < n_handles(buf')
       /\ \A s \in Sides :
            (ReadTurn(s) /\ rd'.pc = "idle" /\ wlog[s] # <<>>)
            => n_handles(buf') = Len(Head(wlog[s]).objs)
       /\ (flavor = "channel" /\ n_handles(buf') # n_handles(buf))
            => (DropBuf \/ \E s \in Sides : ReadTurn(s))]_vars

\* both received handles have been taken and the count is still two
C15_Witness ==
    /\ flavor = "channel" /\ buf.alive /\ n_handles(buf) = 2 /\ takenIx = {0, 1}
    /\ buf.handles = <<INVALID_HANDLE, INVALID_HANDLE>>

\* C16: HandleIter drains the MessageBuf of lib.rs in one pass. next() yields the
\* handle of slot unused_ix, the lowest slot not yet yielded, as a wrapper that is
\* its only owner, and moves unused_ix one on; with every slot yielded it returns
\* None and changes nothing, so it returns None from then on. The position lives in
\* the buffer, so an iterator made later goes on from it. In every state
\* 0 <= unused_ix <= handles.len(), the slots yielded are exactly those below
\* unused_ix, and n_handles() is the number of slots not yet yielded.
C16_SinglePassDrain ==
    [][/\ HandleNext =>
            IF buf.unused_ix < Len(buf.handles)
            THEN /\ loose' = [loose EXCEPT ![buf.handles[buf.unused_ix + 1]] = 1]
                 /\ buf'.unused_ix = buf.unused_ix + 1
                 /\ buf'.handles = buf.handles
                 /\ pipe_n_handles(buf') = pipe_n_handles(buf) - 1
                 /\ UNCHANGED <<hobj, badClose>>
            ELSE /\ pipe_n_handles(buf) = 0
                 /\ UNCHANGED <<buf, loose, hobj, badClose, takenIx>>
       /\ (flavor' \in {"pipe", "reply"} /\ buf'.alive) =>
            /\ 0 <= buf'.unused_ix /\ buf'.unused_ix <= Len(buf'.handles)
            /\ takenIx' = 0..(buf'.unused_ix - 1)
            /\ pipe_n_handles(buf') = Len(buf'.handles) - Cardinality(takenIx')
            /\ pipe_n_handles(buf') >= 0]_vars

\* the iterator has yielded both handles of a message and is exhausted
C16_Witness ==
    /\ flavor \in {"pipe", "reply"} /\ buf.alive
    /\ Len(buf.handles) = 2 /\ buf.unused_ix = 2 /\ pipe_n_handles(buf) = 0
    /\ takenIx = {0, 1}

(***************************************************************************)
(* Wait sets.                                                              *)
(***************************************************************************)
\* C17: registration errors of a WaitSet. add with a cookie that is registered
\* returns Err (ERR_ALREADY_EXISTS or ERR_ALREADY_BOUND) and leaves every
\* registration, the existing one of that cookie included, as it was; add with a
\* free cookie registers the entry. remove with a cookie that is not registered
\* returns Err(ERR_NOT_FOUND) and leaves the registrations as they were; remove of
\* a registered cookie takes that entry off and no other, and an add with the same
\* cookie right after it succeeds.
C17_RegistrationErrors ==
    [][/\ \A cookie \in Cookies, s \in Sides, signals \in SUBSET SigBits \ {{}} :
            (last'.op = "ws_add" /\ WsAdd(cookie, s, signals)) =>
               IF ws.reg[cookie] # NoEntry
               THEN /\ last'.ret = "Err"
                    /\ last'.st \in {ERR_ALREADY_EXISTS, ERR_ALREADY_BOUND}
                    /\ ws'.reg = ws.reg
               ELSE /\ last'.ret = "Ok"
                    /\ ws'.reg = [ws.reg EXCEPT ![cookie] =
                                     [h |-> ep[s], signals |-> signals]]
       /\ \A cookie \in Cookies :
            (last'.op = "ws_remove" /\ WsRemove(cookie)) =>
               IF ws.reg[cookie] = NoEntry
               THEN /\ last'.ret = "Err" /\ last'.st = ERR_NOT_FOUND
                    /\ ws'.reg = ws.reg
               ELSE /\ last'.ret = "Ok"
                    /\ ws'.reg = [ws.reg EXCEPT ![cookie] = NoEntry]
                    /\ \A s \in Sides, signals \in SUBSET SigBits \ {{}} :
                          ep[s] # 0 =>
                             waitset_add(hobj', ws'.reg, ws'.h, ep[s], signals, cookie).ok
      ]_vars

\* an add with a registered cookie was refused while the other cookie is registered too
C17_Witness ==
    /\ last.op = "ws_add" /\ last.ret = "Err" /\ last.st = ERR_ALREADY_EXISTS
    /\ \A c \in Cookies : ws.reg[c] # NoEntry

\* the cookies of the records in the client's results
Reported(w) == {w.results.recs[i].cookie : i \in 1..Len(w.results.recs)}

\* C18: what WaitSet::wait reports. After a wait that returns Ok the results hold
\* as many records as the smaller of their capacity at the call and the number of
\* registered entries with a watched signal active, each record with the cookie,
\* the status and the observed signals of a different such entry; the capacity is
\* as it was, the value in the Ok is the number of all such entries, and with a
\* capacity of at least that number every such entry is reported.
C18_WaitFillsToCapacity ==
    [][(WsWait /\ last'.ret = "Ok") =>
          LET ready == ReadyCookies(ws.reg, ws.obs)
              cap == ws.results.cap
              recs == ws'.results.recs
          IN /\ Len(recs) = Min(cap, Cardinality(ready))
             /\ ws'.results.cap = cap
             /\ last'.x = Cardinality(ready)
             /\ \A i \in 1..Len(recs) :
                   /\ recs[i].cookie \in ready
                   /\ recs[i] = ResultOf(ws.reg, ws.obs, recs[i].cookie)
             /\ Cardinality(Reported(ws')) = Len(recs)
             /\ cap >= Cardinality(ready) => Reported(ws') = ready]_vars

\* C18 as stated: after a wait that returns Ok the results hold one record for every
\* registered entry with a watched signal active, whatever their capacity was
C18_EveryReadyReported ==
    [][(WsWait /\ last'.ret = "Ok") =>
          /\ Len(ws'.results.recs) = Cardinality(ReadyCookies(ws.reg, ws.obs))
          /\ Reported(ws') = ReadyCookies(ws.reg, ws.obs)]_vars

\* a wait returned Ok(2) into results of capacity 1: one ready entry is not reported
C18_Witness ==
    /\ last.op = "ws_wait" /\ last.ret = "Ok" /\ last.x = 2 /\ last.y = 1
    /\ Len(ws.results.recs) = 1 /\ ws.results.cap = 1
    /\ Cardinality(ReadyCookies(ws.reg, ws.obs)) = 2

(***************************************************************************)
(* Creation.                                                               *)
(***************************************************************************)
\* what a message sent from the new endpoint of side s leaves in the kernel: by
\* write, or by write_reply from the reply end of a reply pipe
SentFrom(s) ==
    IF flavor' = "channel"
    THEN write(hobj', queue', flavor', ep'[s], <<>>, <<>>, FALSE)
    ELSE IF flavor' = "reply" /\ s = 1
    THEN write_reply(hobj', queue', flavor', ep'[s], <<>>, <<>>, FALSE)
    ELSE pipe_write(hobj', queue', flavor', ep'[s], <<>>, <<>>, FALSE)

\* a read on the new endpoint of side s, with the kernel as w left it, returns a message
ReadableAt(s, w) ==
    LET K == [hobj |-> w.hobj, queue |-> w.queue, bad |-> FALSE]
        r == IF flavor' = "channel"
             THEN read_raw(K, ep'[s], NewMessageBuf)
             ELSE pipe_read(K, ep'[s], NewMessageBuf)
    IN r.ret = "Ok" /\ r.popped

\* C19: create is all-or-nothing. After a Channel::create or MessagePipe::create
\* that the kernel granted, the two endpoints wrap two different live raw handles,
\* each the only owner of its handle, one on each end of the same pair: a message
\* sent from either is read on the other. After one the kernel refused, the call
\* returns Err, the client holds no endpoint and no wrapper, the handle table is as
\* it was, and nothing was closed.
C19_CreateAllOrNothing ==
    [][\A ok, reply \in BOOLEAN :
          (Create(ok) \/ PipeCreate(ok, reply)) =>
             IF ok
             THEN /\ last'.ret = "Ok"
                  /\ ep'[0] # ep'[1]
                  /\ \A s \in Sides :
                        /\ Live(hobj', ep'[s]) /\ hobj'[ep'[s]] = EpObj(s)
                        /\ \A h \in Handles : h = ep'[s] => Owners(h)' = 1
                        /\ SentFrom(s).ok
                        /\ ReadableAt(1 - s, SentFrom(s))
             ELSE /\ last'.ret = "Err" /\ last'.st < 0
                  /\ \A s \in Sides : ep'[s] = 0
                  /\ \A h \in Handles : Owners(h)' = 0 /\ ~Live(hobj', h)
                  /\ UNCHANGED <<hobj, queue, badClose, flavor>>]_vars

\* a create the kernel refused: no endpoint, no handle
C19_Witness ==
    /\ last.op = "create" /\ last.ret = "Err"
    /\ flavor = "none" /\ \A s \in Sides : ep[s] = 0
    /\ \A h \in Handles : hobj[h] = NoObj

(***************************************************************************)
(* Reading into a buffer that holds handles.                               *)
(***************************************************************************)
\* the buffer and the kernel after the reset a read begins with
AfterReset ==
    IF flavor \in {"pipe", "reply"}
    THEN pipe_reset_handles(Kern, buf)
    ELSE reset_handles(Kern, buf)

\* the kernel after dropping the buffer as the step leaves it
DropAfter ==
    IF flavor \in {"pipe", "reply"}
    THEN pipe_drop_handles(KernNext, buf')
    ELSE drop_handles(KernNext, buf'.handles)

\* C20: a read into a buffer that holds handles closes the stale ones once. When
\* Channel::read or MessagePipe::read starts on a MessageBuf with handles of an
\* earlier message, the reset it begins with closes the raw handle of every
\* untaken slot, each a live handle and each once, closes no other handle, the
\* taken ones included, and leaves the buffer without handles; the kernel read comes
\* after it, so all that differs from the reset state after the step are the
\* handles the read delivered. The handles the buffer holds after the step are live,
\* so a later reset or drop closes none of the stale handles again.
C20_ReuseClosesStaleOnce ==
    [][\A s \in Sides :
          (ReadTurn(s) \/ PipeRead(s)) =>
             LET stale == {buf.handles[i] : i \in UntakenSlots}
                 R == AfterReset
             IN /\ Cardinality(stale) = Cardinality(UntakenSlots)
                /\ \A h \in Handles :
                      IF h \in stale
                      THEN Live(hobj, h) /\ ~Live(R.K.hobj, h)
                      ELSE R.K.hobj[h] = hobj[h]
                /\ R.K.bad = badClose /\ badClose' = badClose
                /\ R.buf.handles = <<>> /\ R.buf.unused_ix = 0
                /\ \A h \in Handles :
                      hobj'[h] # R.K.hobj[h] =>
                         \E i \in 1..Len(buf'.handles) : buf'.handles[i] = h
                /\ \A i \in 1..Len(buf'.handles) : Live(hobj', buf'.handles[i])
                /\ \A h \in Handles : loose[h] > 0 => hobj'[h] = hobj[h]
                /\ ~DropAfter.bad]_vars

\* a MessagePipe::read into a buffer that held an untaken handle delivered a message
\* with a handle while the client holds a handle it had taken out before
C20_Witness ==
    /\ flavor \in {"pipe", "reply"} /\ buf.alive
    /\ last.op = "read" /\ last.ret = "Ok" /\ last.y = 1
    /\ Len(buf.handles) >= 1
    /\ \E h \in Handles : loose[h] = 1 /\ Live(hobj, h)

(***************************************************************************)
(* One kernel call per operation.                                          *)
(***************************************************************************)
\* the mx_channel_read call of a read_raw on the endpoint of side s
FirstRead(s) ==
    mx_channel_read(AfterReset.K.hobj, AfterReset.K.queue, ep[s],
                    size_to_u32_sat(buf.bcap), size_to_u32_sat(buf.hcap))

\* add, add again, remove twice and wait on a WaitSet made in this state over the
\* live handle h: each returns the status of its one kernel call
WaitSetPassesStatus(h) ==
    LET c == waitset_create(hobj, TRUE)
        reg0 == NewWaitSet.reg
        a1 == waitset_add(c.hobj, reg0, c.h, h, {0}, 1)
        a2 == waitset_add(c.hobj, a1.reg, c.h, h, {1}, 1)
        r1 == waitset_remove(c.hobj, a1.reg, c.h, 1)
        r2 == waitset_remove(c.hobj, r1.reg, c.h, 1)
        w == waitset_wait(c.hobj, a1.reg, NewWaitSet.obs, c.h, NewWaitSet.results, {})
        f == waitset_create(hobj, FALSE)
    IN  /\ c.ok /\ a1.ok /\ r1.ok
        /\ ~a2.ok /\ a2.st = mx_waitset_add(c.hobj, a1.reg, c.h, h, {1}, 1).status
        /\ a2.reg = a1.reg
        /\ ~r2.ok /\ r2.st = mx_waitset_remove(c.hobj, r1.reg, c.h, 1).status
        /\ r2.reg = r1.reg
        /\ ~w.ok
        /\ w.st = mx_waitset_wait(c.hobj, a1.reg, NewWaitSet.obs, c.h, 0, {}).status
        /\ ~f.ok /\ f.st = mx_waitset_create(hobj, FALSE).status /\ f.hobj = hobj

\* C21: no retry on a failure that is not about capacity. A turn of Channel::read
\* makes one mx_channel_read call; when its status is not ERR_BUFFER_TOO_SMALL the
\* read returns in that turn with that status and the kernel as that one call left
\* it, so a read that finds the peer closed or nothing pending returns after one
\* call; only the too-small status sends it round the loop. A write, create or
\* duplicate that fails returns the status of its one kernel call and leaves the
\* handle table, the queues and the caller's Vec as they were, and so do the
\* operations of a WaitSet.
C21_NoRetryOnFailure ==
    [][/\ \A s \in Sides :
            ReadTurn(s) =>
               LET k == FirstRead(s) IN
               IF k.status = ERR_BUFFER_TOO_SMALL
               THEN rd'.pc = "loop" /\ rd'.probes = rd.probes + 1
               ELSE /\ rd'.pc = "idle"
                    /\ last' = [op |-> "read",
                                ret |-> IF k.status >= 0 THEN "Ok" ELSE "Err",
                                st |-> k.status, x |-> rd.probes + 1, y |-> Held(buf)]
                    /\ hobj' = k.hobj /\ queue' = k.queue
                    /\ k.status < 0 => buf'.handles = <<>>
       /\ \A s \in Sides, oom \in BOOLEAN :
            ((Write(s, <<>>, oom, MaxPending) \/ PipeWrite(s, <<>>, oom, MaxPending))
                /\ last'.ret = "Err")
            => /\ last'.st = mx_channel_write(hobj, queue, flavor, ep[s], <<>>, vec,
                                              oom).status
               /\ UNCHANGED <<hobj, queue, vec, badClose>>
       /\ \A reply \in BOOLEAN :
            (Create(FALSE) \/ PipeCreate(FALSE, reply))
            => /\ last'.ret = "Err" /\ last'.st = mx_channel_create(hobj, FALSE).status
               /\ UNCHANGED <<hobj, queue, ep>>
       /\ \A h \in Handles, deny \in BOOLEAN :
            (Duplicate(h, deny) /\ mx_handle_duplicate(hobj, h, deny).result < 0)
            => /\ ~duplicate(hobj, h, deny).ok
               /\ duplicate(hobj, h, deny).st = mx_handle_duplicate(hobj, h, deny).result
               /\ UNCHANGED <<hobj, queue, loose>>
       /\ \A s \in Sides :
            (ep[s] # 0 /\ Room(hobj, 1)) => WaitSetPassesStatus(ep[s])]_vars

\* a Channel::read returned the peer-closed error after its first call
C21_Witness ==
    /\ flavor = "channel" /\ last.op = "read" /\ last.ret = "Err"
    /\ last.st = ERR_REMOTE_CLOSED /\ last.x = 1

(***************************************************************************)
(* Conversions between the typed wrappers and Handle.                      *)
(***************************************************************************)
\* no handle was closed, none appeared, no queue changed
NoKernelCall == UNCHANGED <<hobj, queue, badClose>>

\* C22: conversion keeps the owner and closes nothing. into_handle on an endpoint
\* or on a Handle gives a Handle on the same raw handle and makes no close:
\* the handle table is as it was and the Handle is the only owner of the raw
\* handle; from_handle on that Handle gives the wrapper of the same raw handle,
\* again with no close and as the only owner. In every state a live raw handle has
\* one owner, and dropping that owner closes the raw handle, a live one, and no
\* other.
C22_ConversionKeepsOwner ==
    [][/\ \A s \in Sides :
            IntoHandle(s) =>
               /\ into_handle(Kern, ep[s]) = [K |-> Kern, h |-> ep[s]]
               /\ NoKernelCall
               /\ ep'[s] = 0 /\ loose' = [loose EXCEPT ![ep[s]] = 1]
               /\ \A h \in Handles : Owners(h)' = Owners(h)
       /\ \A h \in Handles :
            FromHandle(h) =>
               /\ NoKernelCall
               /\ ep'[SideOf(hobj[h])] = h /\ loose'[h] = 0
               /\ \A g \in Handles : Owners(g)' = Owners(g)
       /\ \A h \in Handles :
            PushVec(h) =>
               /\ NoKernelCall
               /\ vec' = Append(vec, h) /\ loose'[h] = 0
               /\ \A g \in Handles : Owners(g)' = Owners(g)
       /\ \A h \in Handles :
            ((DropHandle(h) \/ \E s \in Sides : ep[s] = h /\ DropEndpoint(s))) =>
               /\ Live(hobj, h) /\ ~Live(hobj', h)
               /\ \A g \in Handles \ {h} : hobj'[g] = hobj[g]
       /\ ~badClose'
       /\ \A h \in Handles : Live(hobj', h) => Owners(h)' = 1]_vars

\* an endpoint went into a Handle and came back: it wraps the raw handle of before,
\* which is live and has the endpoint as its only owner
C22_Witness ==
    /\ last.op = "from_handle" /\ Live(hobj, last.x)
    /\ \E s \in Sides : ep[s] = last.x /\ hobj[last.x] = EpObj(s)
    /\ Owners(last.x) = 1 /\ loose[last.x] = 0

(***************************************************************************)
(* write_reply.                                                            *)
(***************************************************************************)
\* the objects a write_reply from side s sends: those of the Vec, then the endpoint
ReplyObjs(s) ==
    [i \in 1..(Len(vec) + 1) |-> IF i <= Len(vec) THEN hobj[vec[i]] ELSE EpObj(s)]

\* C23: a write_reply that succeeds sends the endpoint itself. On the reply end of
\* a pair made with MX_FLAG_REPLY_PIPE a write returns Err, and a write_reply with
\* the peer there and memory for the message returns Ok. A write_reply returns Ok
\* on that end only; then the message queued last for the peer carries the objects
\* of the caller's handles with the endpoint as the last one, the Vec has length 0,
\* the sender has no endpoint object and no owner of any sent handle left, no sent
\* raw handle is in its handle table, and no close was made: the endpoint and the
\* other sent objects live on in the message.
C23_ReplySendsEndpoint ==
    [][/\ \A oom \in BOOLEAN :
            (flavor = "reply" /\ PipeWrite(1, <<>>, oom, MaxPending))
            => last'.ret = "Err" /\ vec' = vec /\ hobj' = hobj
       /\ (flavor = "reply" /\ EpAlive(hobj, queue, 0)
              /\ PipeWriteReply(1, <<>>, FALSE, MaxPending))
            => last'.ret = "Ok"
       /\ \A s \in Sides, oom \in BOOLEAN :
            (PipeWriteReply(s, <<>>, oom, MaxPending) /\ last'.ret = "Ok")
            => /\ flavor = "reply" /\ s = 1
               /\ queue'[1 - s] # <<>>
               /\ queue'[1 - s][Len(queue'[1 - s])].objs = ReplyObjs(s)
               /\ vec' = <<>> /\ ep'[s] = 0
               /\ \A h \in Range(vec) \cup {ep[s]} :
                     /\ Live(hobj, h) /\ ~Live(hobj', h)
                     /\ Owners(h) = 1 /\ Owners(h)' = 0
               /\ \A h \in Handles \ (Range(vec) \cup {ep[s]}) : hobj'[h] = hobj[h]
               /\ badClose' = badClose
               /\ EpAlive(hobj', queue', s)
               /\ \A i \in 1..Len(vec) : InFlight(queue', hobj[vec[i]])]_vars

\* the reply end sent itself behind a handle of the caller
C23_Witness ==
    /\ flavor = "reply" /\ last.op = "write_reply" /\ last.ret = "Ok" /\ last.y = 1
    /\ ep[1] = 0 /\ vec = <<>> /\ queue[0] # <<>>
    /\ Len(Head(queue[0]).objs) = 2 /\ Head(queue[0]).objs[2] = EpObj(1)

\* the mx_waitset_wait call of a WaitSet::wait in this state, reporting chosen
KernelWait(chosen) ==
    mx_waitset_wait(hobj, ws.reg, ws.obs, ws.h, size_to_u32_sat(ws.results.cap), chosen)

\* C24: WaitSet::wait keeps the results within their capacity. When the kernel call
\* fails wait returns its status as the error and the results are empty. When it
\* succeeds the length of the results is the count the kernel wrote back, the
\* records are the ones it wrote, the length is at most the capacity the results
\* had at the call, and the value in the Ok is the kernel's max_results, which is
\* at least the length. The capacity is the same after the call either way.
C24_WaitWithinCapacity ==
    [][WsWait =>
          /\ ws'.results.cap = ws.results.cap
          /\ \E chosen \in WaitChoices(ws.reg, ws.obs, size_to_u32_sat(ws.results.cap)) :
                LET k == KernelWait(chosen) IN
                IF k.status # NO_ERROR
                THEN /\ last'.ret = "Err" /\ last'.st = k.status
                     /\ ws'.results.recs = <<>>
                ELSE /\ last'.ret = "Ok" /\ last'.x = k.max_results
                     /\ Len(ws'.results.recs) = k.num_results
                     /\ ws'.results.recs = k.written
                     /\ Len(ws'.results.recs) <= ws.results.cap
                     /\ last'.x >= Len(ws'.results.recs)]_vars

\* a wait timed out with entries registered and room for results: the results are
\* empty
C24_Witness ==
    /\ last.op = "ws_wait" /\ last.ret = "Err" /\ last.st = ERR_TIMED_OUT
    /\ last.y = MaxResults /\ ws.results.recs = <<>>
    /\ \E c \in Cookies : ws.reg[c] # NoEntry


\* C25: MessagePipe::read retries at most once. An invocation makes one kernel
\* read call or two. It goes on to the second only when the first reported
\* too-small, the message was left pending, and both Vecs were grown to at least
\* the sizes the call reported, which are those of the head message. It returns
\* after the second call whatever the status. When the head message at the
\* second call exceeds the grown buffer (the message the first call measured was
\* taken by another reader in between), read returns Err(ERR_BUFFER_TOO_SMALL),
\* the message is still pending and the buffer holds no handle.
C25_PipeReadRetriesOnce ==
    [][/\ PipeReadFirst(1) =>
            IF rd'.pc = "retry"
            THEN /\ Exceeds(1)
                 /\ last' = [op |-> "read_first", ret |-> "TooSmall",
                             st |-> ERR_BUFFER_TOO_SMALL,
                             x |-> Len(Head(wlog[1]).bytes),
                             y |-> Len(Head(wlog[1]).objs)]
                 /\ queue' = queue /\ wlog' = wlog
                 /\ buf'.bcap >= last'.x /\ buf'.hcap >= last'.y
                 /\ rd'.probes = 1
            ELSE /\ ~Exceeds(1)
                 /\ rd'.pc = "idle"
                 /\ last'.op = "read" /\ last'.x = 1
                 /\ last'.st # ERR_BUFFER_TOO_SMALL
       /\ PipeReadSecond(1) =>
            /\ rd.probes = 1 /\ rd'.pc = "idle"
            /\ last'.op = "read" /\ last'.x = 2
            /\ IF Exceeds(1)
               THEN /\ last'.ret = "Err" /\ last'.st = ERR_BUFFER_TOO_SMALL
                    /\ queue' = queue /\ wlog' = wlog
                    /\ buf'.handles = <<>> /\ pipe_n_handles(buf') = 0
                    /\ hobj' = hobj
               ELSE /\ last'.st # ERR_BUFFER_TOO_SMALL
                    /\ last'.ret = IF wlog[1] # <<>> THEN "Ok" ELSE "Err"]_vars

\* a read returned the too-small error from its second call: another reader had
\* taken the message the first call measured and a larger one is pending
C25_Witness ==
    /\ flavor = "pipe" /\ rd.pc = "idle"
    /\ last.op = "read" /\ last.x = 2 /\ last.ret = "Err"
    /\ last.st = ERR_BUFFER_TOO_SMALL
    /\ wlog[1] # <<>> /\ buf.handles = <<>>
    /\ Len(Head(wlog[1]).bytes) > buf.bcap \/ Len(Head(wlog[1]).objs) > buf.hcap
    /\ buf2.bytes # <<>> \/ buf2.handles # <<>>


\* the MessageBuf b holds the written message m whole: its bytes as the writer
\* passed them and, slot for slot, handles on the objects the writer sent
Whole(ho, b, m) == bytes_of(b) = m.bytes /\ SameObjects(ho, b, m)

\* a step in which the first reader's Channel::read returned
ReadReturned == ReadTurn(1) /\ rd'.pc = "idle"

\* C26: the retry of Channel::read is safe with a second reader on the endpoint.
\* Whatever the second reader takes between a too-small probe and the retry,
\* every read that returns success, of either reader, leaves in its buffer one
\* written message whole: the bytes and the handles of the message that was the
\* head of the queue at that call, as its writer passed them. That message leaves
\* the queue in the same step, so no other read delivers it, and the other
\* reader's buffer is untouched. A read that does not return success delivers
\* nothing and takes no message from the queue.
C26_RetrySafeWithTwoReaders ==
    [][/\ ReadReturned =>
            /\ buf2' = buf2
            /\ IF last'.ret = "Ok"
               THEN /\ wlog[1] # <<>>
                    /\ Whole(hobj', buf', Head(wlog[1]))
                    /\ wlog'[1] = Tail(wlog[1]) /\ queue'[1] = Tail(queue[1])
                    /\ \A i \in 1..Len(buf'.handles) :
                          /\ ~Live(hobj, buf'.handles[i]) \/ buf'.handles[i] \in Range(buf.handles)
                          /\ buf'.handles[i] \notin Range(buf2.handles)
               ELSE /\ wlog' = wlog /\ queue' = queue /\ buf'.handles = <<>>
       /\ (ReadTurn(1) /\ rd'.pc = "loop") =>
            /\ wlog' = wlog /\ queue' = queue /\ buf2' = buf2 /\ buf'.handles = <<>>
       /\ (flavor = "channel" /\ OtherRead(1)) =>
            /\ buf' = buf /\ rd' = rd
            /\ IF last'.ret = "Ok"
               THEN /\ wlog[1] # <<>>
                    /\ Whole(hobj', buf2', Head(wlog[1]))
                    /\ wlog'[1] = Tail(wlog[1]) /\ queue'[1] = Tail(queue[1])
                    /\ \A i \in 1..Len(buf2'.handles) :
                          buf2'.handles[i] \notin Range(buf.handles)
               ELSE /\ wlog' = wlog /\ queue' = queue /\ buf2'.handles = <<>>]_vars

\* a Channel::read returned success after two too-small probes: the message the
\* first probe measured was taken by the second reader before the retry, the one
\* behind it was larger, and the read delivered that one whole
C26_Witness ==
    /\ flavor = "channel" /\ rd.pc = "idle"
    /\ last.op = "read" /\ last.ret = "Ok" /\ last.x = 3
    /\ buf2.bytes # <<>> /\ Len(buf2.handles) = 1
    /\ Len(buf.bytes) = MaxBytes /\ Len(buf.handles) = 1
    /\ hobj[buf.handles[1]] # hobj[buf2.handles[1]]
====
